---- MODULE Spec2Model ----
(***************************************************************************)
(* Model of the Strava challenge tracker: the credential file              *)
(* athlete_tokens.json, the derived stats.json, the collection script      *)
(* collect-data.js (one OS process per run, spawned by cron-job.js or by   *)
(* GET /api/trigger-collect), and the server handlers that write the       *)
(* credential file (GET /auth/callback, DELETE /api/athletes/:athleteId).  *)
(*                                                                         *)
(* Units.  Activity distances are metres, as the provider reports them;    *)
(* the model draws them from multiples of 1000 so that the kilometre       *)
(* value (distance / 1000) is an integer.  Distances are JavaScript        *)
(* numbers: a sum is rounded to the nearest number with Precision          *)
(* significant bits, ties to even.  Times are whole clock ticks.           *)
(* Tokens are generation numbers: the n-th token pair the provider issued  *)
(* for an athlete is n; 0 is "no token".                                   *)
(***************************************************************************)
EXTENDS Integers, Sequences, FiniteSets, TLC

\* ------------------------------------------------------------------ bounds
MaxOps == 2            \* runs, callbacks and removals started in a behaviour
MaxTime == 1           \* the clock stops ticking here
MaxIssued == 2         \* token pairs the provider issues per athlete
TokenTTL == 1          \* lifetime the provider gives an access token
perPage == 2           \* page size (200 in the source, scaled down)
MaxSerialOps == 3      \* runs and removals started when they come one at a time
MaxActivities == 5     \* activities of the athlete fetchActivities is called for
Precision == 4         \* significant bits of a number (53 in the source, scaled down)
MaxAthletes == 3       \* athletes in the store when the aggregation is run on its own
MaxBreakdown == 4      \* activities in the list calculateDistanceBreakdown is called with
SecondsPerDay == 2      \* instants of a day (86400 in the source, scaled down)
MaxInWindow == 2        \* activities of the athlete the window is applied to

START_DATE == 1        \* the first day of the tracking period, days counted from the epoch
END_DATE == 3          \* the last day of the tracking period

Users == {1, 2}        \* athletes known to the provider
Runs == {1, 2}         \* collect-data.js processes that can be alive at once
Sessions == {1, 2}     \* browsers holding a session cookie of the server

VARIABLES
    now,          \* wall clock, Math.floor(Date.now() / 1000)
    latest,       \* provider: generation of the token pair last issued per athlete
    tokensFile,   \* athlete_tokens.json: content of the last completed write
    tokensTorn,   \* athlete_tokens.json is truncated, a writeFile is under way
    statsFile,    \* stats.json: content of the last completed write
    statsTorn,    \* stats.json is truncated, a writeFile is under way
    run,          \* the collect-data.js processes
    cb,           \* the GET /auth/callback handler in flight
    adm,          \* the DELETE /api/athletes/:athleteId handler in flight
    ops,          \* runs, callbacks and removals started so far
    reply,        \* the response the server sent last
    lastLog,      \* the line a collect-data.js process ended with last
    call,         \* a function called on its own: its arguments and its progress
    expiries,     \* provider: the expires_at of every token pair issued, per athlete
    missing,      \* the files that do not exist, of "tokens" and "stats"
    session       \* express-session: what the store holds for each session cookie

vars == <<now, latest, tokensFile, tokensTorn, statsFile, statsTorn, run, cb, adm, ops, reply, lastLog, call,
          expiries, missing, session>>

\* ---------------------------------------------------------------- helpers
EmptyObject == [k \in {} |-> 0]

Min(a, b) == IF a < b THEN a ELSE b

RECURSIVE Pow(_, _)
Pow(b, e) == IF e = 0 THEN 1 ELSE b * Pow(b, e - 1)

\* The unit in the last place of x >= 0: the least power of two u, from u0 on,
\* with x < u * 2^Precision.
RECURSIVE UlpFrom(_, _)
UlpFrom(x, u0) == IF x < u0 * Pow(2, Precision) THEN u0 ELSE UlpFrom(x, 2 * u0)

\* The number nearest to the real x >= 0, ties to even.
RoundToNumber(x) ==
    LET u == UlpFrom(x, 1)
        q == x \div u
        r == x % u
    IN IF 2 * r < u THEN q * u
       ELSE IF 2 * r > u THEN (q + 1) * u
       ELSE IF q % 2 = 0 THEN q * u ELSE (q + 1) * u

\* a + b on numbers
NumberAdd(a, b) == RoundToNumber(a + b)

\* Object.keys of an object whose keys are integer-like: ascending numeric order.
RECURSIVE SortedSeq(_)
SortedSeq(S) ==
    IF S = {} THEN <<>>
    ELSE LET m == CHOOSE x \in S : \A y \in S : x <= y
         IN <<m>> \o SortedSeq(S \ {m})

ObjectKeys(tokens) == SortedSeq(DOMAIN tokens)

\* A variant of DeleteKey that takes the records before athleteId with it.
DeleteKeysUpTo(tokens, athleteId) ==
    [k \in {j \in DOMAIN tokens : j > athleteId} |-> tokens[k]]

\* delete tokens[athleteId]
DeleteKey(tokens, athleteId) == [k \in DOMAIN tokens \ {athleteId} |-> tokens[k]]

\* tokens[athleteId] = record
SetKey(tokens, athleteId, record) ==
    [k \in DOMAIN tokens \cup {athleteId} |->
        IF k = athleteId THEN record ELSE tokens[k]]

\* ------------------------------------------------------------ the provider
\* The activities of athlete u inside the tracking window, oldest first.
NumActivities(u) == IF u <= perPage THEN perPage + 1 - u ELSE 0

ActivityAt(u, k) ==
    CASE (u + k) % 3 = 2 -> [distance |-> 5000, type |-> "Run"]
      [] (u + k) % 3 = 0 -> [distance |-> 3000, type |-> "Ride"]
      [] OTHER           -> [type |-> ""]

ProviderActivities(u) == [k \in 1..NumActivities(u) |-> ActivityAt(u, k)]

\* Page p of the list `all`, perPage records to the page.
PageOf(all, p) ==
    LET from == (p - 1) * perPage + 1
        to == Min(p * perPage, Len(all))
    IN IF from > Len(all) THEN <<>> ELSE SubSeq(all, from, to)

\* GET /athlete/activities?page=p&per_page=perPage
ProviderPage(u, p) == PageOf(ProviderActivities(u), p)

\* The activities the provider can report: a run, a ride, one without type and
\* distance; and the lists of them an athlete can have in the window.
ActivityKinds ==
    {[distance |-> 5000, type |-> "Run"], [distance |-> 3000, type |-> "Ride"], [type |-> ""]}

ActivityLists == UNION {[1..n -> ActivityKinds] : n \in 0..MaxActivities}

NoResponse == [ok |-> FALSE, access_token |-> 0, refresh_token |-> 0, expires_at |-> 0]

\* POST /oauth/token: the next token pair for athlete u.
IssuedResponse(u) ==
    [ok |-> TRUE, access_token |-> latest[u] + 1, refresh_token |-> latest[u] + 1,
     expires_at |-> now + TokenTTL]

\* grant_type=refresh_token: the request may fail (network, provider error); it
\* can succeed only with the refresh token the provider issued last.
RefreshResponses(u, refreshToken) ==
    {NoResponse} \cup
    (IF refreshToken = latest[u] /\ latest[u] < MaxIssued
        THEN {IssuedResponse(u)} ELSE {})

\* grant_type=authorization_code
ExchangeResponses(u) ==
    {NoResponse} \cup (IF latest[u] < MaxIssued THEN {IssuedResponse(u)} ELSE {})

\* -------------------------------------------------- collect-data.js, pure
\* Variants of refreshAccessToken with a slip in them, used to test the claims
\* below: the record is touched before the request has succeeded; the new
\* refresh token is not stored; the expiry test is missing.
refreshAccessTokenEager(athleteData, t, response) ==
    IF athleteData.expiresAt > t
    THEN [record |-> athleteData, accessToken |-> athleteData.accessToken,
          posted |-> FALSE, threw |-> FALSE]
    ELSE IF response.ok
    THEN [record |-> [athleteData EXCEPT !.accessToken = response.access_token,
                                         !.refreshToken = response.refresh_token,
                                         !.expiresAt = response.expires_at],
          accessToken |-> response.access_token,
          posted |-> TRUE, threw |-> FALSE]
    ELSE [record |-> [athleteData EXCEPT !.accessToken = 0],
          accessToken |-> 0, posted |-> TRUE, threw |-> TRUE]

refreshAccessTokenKeepsRefreshToken(athleteData, t, response) ==
    IF athleteData.expiresAt > t
    THEN [record |-> athleteData, accessToken |-> athleteData.accessToken,
          posted |-> FALSE, threw |-> FALSE]
    ELSE IF response.ok
    THEN [record |-> [athleteData EXCEPT !.accessToken = response.access_token,
                                         !.expiresAt = response.expires_at],
          accessToken |-> response.access_token,
          posted |-> TRUE, threw |-> FALSE]
    ELSE [record |-> athleteData, accessToken |-> 0, posted |-> TRUE, threw |-> TRUE]

refreshAccessTokenAlways(athleteData, t, response) ==
    IF response.ok
    THEN [record |-> [athleteData EXCEPT !.accessToken = response.access_token,
                                         !.refreshToken = response.refresh_token,
                                         !.expiresAt = response.expires_at],
          accessToken |-> response.access_token,
          posted |-> TRUE, threw |-> FALSE]
    ELSE [record |-> athleteData, accessToken |-> 0, posted |-> TRUE, threw |-> TRUE]

\* A variant of refreshAccessToken that stores the new expiry and refresh token
\* beside the old access token.
refreshAccessTokenExpiryOnly(athleteData, t, response) ==
    IF athleteData.expiresAt > t
    THEN [record |-> athleteData, accessToken |-> athleteData.accessToken,
          posted |-> FALSE, threw |-> FALSE]
    ELSE IF response.ok
    THEN [record |-> [athleteData EXCEPT !.refreshToken = response.refresh_token,
                                         !.expiresAt = response.expires_at],
          accessToken |-> response.access_token,
          posted |-> TRUE, threw |-> FALSE]
    ELSE [record |-> athleteData, accessToken |-> 0, posted |-> TRUE, threw |-> TRUE]

\* A variant of refreshAccessToken that does not store the new expiry.
refreshAccessTokenKeepsExpiry(athleteData, t, response) ==
    IF athleteData.expiresAt > t
    THEN [record |-> athleteData, accessToken |-> athleteData.accessToken,
          posted |-> FALSE, threw |-> FALSE]
    ELSE IF response.ok
    THEN [record |-> [athleteData EXCEPT !.accessToken = response.access_token,
                                         !.refreshToken = response.refresh_token],
          accessToken |-> response.access_token,
          posted |-> TRUE, threw |-> FALSE]
    ELSE [record |-> athleteData, accessToken |-> 0, posted |-> TRUE, threw |-> TRUE]

\* refreshAccessToken(athleteData) at time t, the provider answering `response`
\* if asked.  record: athleteData afterwards; posted: a request was issued;
\* threw: the call threw; accessToken: the value returned.
refreshAccessToken(athleteData, t, response) ==
    IF athleteData.expiresAt > t
    THEN [record |-> athleteData, accessToken |-> athleteData.accessToken,
          posted |-> FALSE, threw |-> FALSE]
    ELSE IF response.ok
    THEN [record |-> [athleteData EXCEPT !.accessToken = response.access_token,
                                         !.refreshToken = response.refresh_token,
                                         !.expiresAt = response.expires_at],
          accessToken |-> response.access_token,
          posted |-> TRUE, threw |-> FALSE]
    ELSE [record |-> athleteData, accessToken |-> 0, posted |-> TRUE, threw |-> TRUE]

\* Variants of fetchActivitiesStep: the loop ends at an empty page only; a
\* page replaces what has been accumulated.
fetchActivitiesStepUntilEmpty(allActivities, page, ok, data) ==
    IF ~ok THEN [done |-> TRUE, allActivities |-> <<>>, page |-> page]
    ELSE IF Len(data) = 0
    THEN [done |-> TRUE, allActivities |-> allActivities, page |-> page]
    ELSE [done |-> FALSE, allActivities |-> allActivities \o data, page |-> page + 1]

fetchActivitiesStepReplaces(allActivities, page, ok, data) ==
    IF ~ok THEN [done |-> TRUE, allActivities |-> <<>>, page |-> page]
    ELSE IF Len(data) = 0
    THEN [done |-> TRUE, allActivities |-> allActivities, page |-> page]
    ELSE IF Len(data) < perPage
    THEN [done |-> TRUE, allActivities |-> data, page |-> page]
    ELSE [done |-> FALSE, allActivities |-> data, page |-> page + 1]

\* A variant of fetchActivitiesStep that asks for the same page again when the
\* request has failed.
fetchActivitiesStepRetries(allActivities, page, ok, data) ==
    IF ~ok THEN [done |-> FALSE, allActivities |-> allActivities, page |-> page]
    ELSE IF Len(data) = 0
    THEN [done |-> TRUE, allActivities |-> allActivities, page |-> page]
    ELSE IF Len(data) < perPage
    THEN [done |-> TRUE, allActivities |-> allActivities \o data, page |-> page]
    ELSE [done |-> FALSE, allActivities |-> allActivities \o data, page |-> page + 1]

\* One turn of the while loop of fetchActivities: the request for `page` was
\* answered by `data` (ok) or failed.  done: the function returns allActivities.
fetchActivitiesStep(allActivities, page, ok, data) ==
    IF ~ok THEN [done |-> TRUE, allActivities |-> <<>>, page |-> page]
    ELSE IF Len(data) = 0
    THEN [done |-> TRUE, allActivities |-> allActivities, page |-> page]
    ELSE IF Len(data) < perPage
    THEN [done |-> TRUE, allActivities |-> allActivities \o data, page |-> page]
    ELSE [done |-> FALSE, allActivities |-> allActivities \o data, page |-> page + 1]

\* A variant of AddActivity that compares type keys without regard to case.
AddActivityFoldsCase(breakdown, activity) ==
    LET distance == (IF "distance" \in DOMAIN activity THEN activity.distance ELSE 0) \div 1000
        given == IF "type" \in DOMAIN activity /\ activity.type # ""
                 THEN activity.type ELSE "Other"
        type == IF given = "run" THEN "Run" ELSE given
        old == IF type \in DOMAIN breakdown.byType
               THEN breakdown.byType[type] ELSE [distance |-> 0, count |-> 0]
    IN [total |-> NumberAdd(breakdown.total, distance),
        byType |-> [k \in DOMAIN breakdown.byType \cup {type} |->
                      IF k = type
                      THEN [distance |-> NumberAdd(old.distance, distance),
                            count |-> old.count + 1]
                      ELSE breakdown.byType[k]]]

\* The body of activities.forEach in calculateDistanceBreakdown.
AddActivity(breakdown, activity) ==
    LET distance == (IF "distance" \in DOMAIN activity THEN activity.distance ELSE 0) \div 1000
        type == IF "type" \in DOMAIN activity /\ activity.type # ""
                THEN activity.type ELSE "Other"
        old == IF type \in DOMAIN breakdown.byType
               THEN breakdown.byType[type] ELSE [distance |-> 0, count |-> 0]
    IN [total |-> NumberAdd(breakdown.total, distance),
        byType |-> [k \in DOMAIN breakdown.byType \cup {type} |->
                      IF k = type
                      THEN [distance |-> NumberAdd(old.distance, distance),
                            count |-> old.count + 1]
                      ELSE breakdown.byType[k]]]

RECURSIVE calculateDistanceBreakdown(_)
calculateDistanceBreakdown(activities) ==
    IF activities = <<>> THEN [total |-> 0, byType |-> EmptyObject]
    ELSE AddActivity(calculateDistanceBreakdown(SubSeq(activities, 1, Len(activities) - 1)),
                     activities[Len(activities)])

\* A variant of AggregateTypes in which an athlete's figures replace those of
\* the athletes before.
AggregateTypesOverwrites(activityTypeBreakdown, byType) ==
    [k \in DOMAIN activityTypeBreakdown \cup DOMAIN byType |->
        IF k \in DOMAIN byType THEN byType[k] ELSE activityTypeBreakdown[k]]

\* A variant of AggregateTypes in which a type keeps the figures of the first
\* athlete that has it.
AggregateTypesKeepsFirst(activityTypeBreakdown, byType) ==
    [k \in DOMAIN activityTypeBreakdown \cup DOMAIN byType |->
        IF k \in DOMAIN activityTypeBreakdown THEN activityTypeBreakdown[k] ELSE byType[k]]

\* "Aggregate activity types": Object.keys(breakdown.byType).forEach(...)
AggregateTypes(activityTypeBreakdown, byType) ==
    [k \in DOMAIN activityTypeBreakdown \cup DOMAIN byType |->
        LET old == IF k \in DOMAIN activityTypeBreakdown
                   THEN activityTypeBreakdown[k] ELSE [distance |-> 0, count |-> 0]
        IN IF k \in DOMAIN byType
           THEN [distance |-> NumberAdd(old.distance, byType[k].distance),
                 count |-> old.count + byType[k].count]
           ELSE old]

\* A variant of InsertByDistance that puts an element before its equals.
RECURSIVE InsertBeforeEqual(_, _)
InsertBeforeEqual(sorted, x) ==
    IF sorted = <<>> THEN <<x>>
    ELSE IF sorted[1].distance > x.distance
    THEN <<sorted[1]>> \o InsertBeforeEqual(Tail(sorted), x)
    ELSE <<x>> \o sorted

\* athleteStats.sort((a, b) => b.distance - a.distance): Array.prototype.sort is
\* stable, so an element goes behind every earlier one that is not smaller.
RECURSIVE InsertByDistance(_, _)
InsertByDistance(sorted, x) ==
    IF sorted = <<>> THEN <<x>>
    ELSE IF sorted[1].distance >= x.distance
    THEN <<sorted[1]>> \o InsertByDistance(Tail(sorted), x)
    ELSE <<x>> \o sorted

RECURSIVE SortByDistance(_)
SortByDistance(athleteStats) ==
    IF athleteStats = <<>> THEN <<>>
    ELSE InsertByDistance(SortByDistance(SubSeq(athleteStats, 1, Len(athleteStats) - 1)),
                          athleteStats[Len(athleteStats)])

\* A variant of BuildStats that counts the athletes who have covered a distance.
BuildStatsCountsActive(totalDistance, athleteStats, activityTypeBreakdown) ==
    [totalDistance |-> totalDistance,
     totalDistanceMiles |-> totalDistance * 621371,
     athletes |-> SortByDistance(athleteStats),
     athleteCount |-> Cardinality({i \in 1..Len(athleteStats) : athleteStats[i].distance > 0}),
     activityTypeBreakdown |-> activityTypeBreakdown]

\* The stats object collectData writes, without lastUpdated and trackingPeriod.
\* totalDistanceMiles is in millionths of a mile (totalDistance * 0.621371).
BuildStats(totalDistance, athleteStats, activityTypeBreakdown) ==
    [totalDistance |-> totalDistance,
     totalDistanceMiles |-> totalDistance * 621371,
     athletes |-> SortByDistance(athleteStats),
     athleteCount |-> Len(athleteStats),
     activityTypeBreakdown |-> activityTypeBreakdown]

\* What initializeFiles writes to stats.json (lastUpdated is null there).
BaselineStats == [totalDistance |-> 0, athletes |-> <<>>]

\* ------------------------------------------------------------------- state
\* A collect-data.js process.  tokens .. activityTypeBreakdown are the locals
\* of collectData; idx is the position of the for-of loop in athleteIds.
\* loaded, posted, refreshFailed and fetchFailed record what happened in the
\* run: the object readTokens returned, the athletes a refresh request was
\* issued for, those whose refresh threw and those a page request failed for.
\* A process that has exited is IdleRun again.
IdleRun ==
    [pc |-> "idle", tokens |-> EmptyObject, athleteIds |-> <<>>, idx |-> 0,
     accessToken |-> 0, page |-> 0, allActivities |-> <<>>,
     totalDistance |-> 0, athleteStats |-> <<>>, activityTypeBreakdown |-> EmptyObject,
     stats |-> BaselineStats,
     loaded |-> EmptyObject, posted |-> {}, refreshFailed |-> {}, fetchFailed |-> {}]

IdleHandler == [pc |-> "idle", athleteId |-> 0, tokens |-> EmptyObject, record |-> NoResponse]

\* No response sent yet; no function called on its own.
NoReply == [route |-> "", status |-> 0]

NoCall == [fn |-> ""]

\* A session in which nobody has logged in (or that has been destroyed).
NoSession == [isAdmin |-> FALSE]

\* The record GET /auth/callback stores for athlete u from `response` at time t.
NewRecord(u, response, t) ==
    [athleteId |-> u,
     accessToken |-> response.access_token,
     refreshToken |-> response.refresh_token,
     expiresAt |-> response.expires_at,
     connectedAt |-> t]

\* The server has started (initializeFiles has run) and some athletes have
\* connected through GET /auth/callback at time 0, one after the other.
Init ==
    /\ now = 0
    /\ \E connected \in SUBSET Users :
         /\ latest = [u \in Users |-> IF u \in connected THEN 1 ELSE 0]
         /\ expiries = [u \in Users |-> IF u \in connected THEN <<TokenTTL>> ELSE <<>>]
         /\ tokensFile = [u \in connected |->
                            NewRecord(u, [ok |-> TRUE, access_token |-> 1, refresh_token |-> 1,
                                          expires_at |-> TokenTTL], 0)]
    /\ tokensTorn = FALSE
    /\ statsFile = BaselineStats
    /\ statsTorn = FALSE
    /\ run = [r \in Runs |-> IdleRun]
    /\ cb = IdleHandler
    /\ adm = IdleHandler
    /\ ops = 0
    /\ reply = NoReply
    /\ lastLog = ""
    /\ call = NoCall
    /\ missing = {}
    /\ session = [s \in Sessions |-> NoSession]

\* The guard of every action that starts a run, a callback or a removal.
MayStart == ops < MaxOps

\* The athlete the for-of loop of run r is at.
CurrentAthlete(r) == run[r].athleteIds[run[r].idx]

\* ------------------------------------------------------------------- clock
Tick ==
    /\ now < MaxTime
    /\ now' = now + 1
    /\ UNCHANGED <<latest, tokensFile, tokensTorn, statsFile, statsTorn, run, cb, adm, ops, reply, call, lastLog, expiries, missing, session>>

\* -------------------------------------------------------- starting a run
\* exec('node collect-data.js'): a new process, whatever else is running.
Spawn(r) ==
    /\ run[r].pc = "idle"
    /\ MayStart
    /\ ops' = ops + 1
    /\ run' = [run EXCEPT ![r].pc = "readTokens"]
    /\ UNCHANGED <<now, latest, tokensFile, tokensTorn, statsFile, statsTorn, cb, adm, reply, call, lastLog, expiries, missing, session>>

\* cron-job.js: the scheduled tick and the run at startup.
CronJob == \E r \in Runs : Spawn(r)

\* GET /api/trigger-collect
TriggerCollect == \E r \in Runs : Spawn(r)

\* ---------------------------------------------------------- collectData
\* A variant of NextAthlete in which an athlete's error ends the loop.
NextAthleteStopsOnError(rec) ==
    IF rec.idx < Len(rec.athleteIds) /\ rec.refreshFailed = {}
    THEN [rec EXCEPT !.pc = "refresh", !.idx = rec.idx + 1, !.accessToken = 0,
                     !.page = 0, !.allActivities = <<>>]
    ELSE [rec EXCEPT !.pc = "saveTokens", !.idx = 0, !.accessToken = 0,
                     !.page = 0, !.allActivities = <<>>]

\* A variant of NextAthlete that goes to saveTokens after every athlete but
\* the last and after the last one.
NextAthleteSavesEarly(rec) ==
    IF rec.idx = 0
    THEN [rec EXCEPT !.pc = "refresh", !.idx = rec.idx + 1, !.accessToken = 0,
                     !.page = 0, !.allActivities = <<>>]
    ELSE [rec EXCEPT !.pc = "saveTokens", !.idx = 0, !.accessToken = 0,
                     !.page = 0, !.allActivities = <<>>]

\* A variant of NextAthlete that stays at an athlete whose refresh has thrown
\* and tries the refresh again.
NextAthleteRetriesFailed(rec) ==
    IF rec.pc = "refresh" /\ rec.idx > 0 /\ rec.athleteIds[rec.idx] \in rec.refreshFailed
    THEN rec
    ELSE IF rec.idx < Len(rec.athleteIds)
    THEN [rec EXCEPT !.pc = "refresh", !.idx = rec.idx + 1, !.accessToken = 0,
                     !.page = 0, !.allActivities = <<>>]
    ELSE [rec EXCEPT !.pc = "saveTokens", !.idx = 0, !.accessToken = 0,
                     !.page = 0, !.allActivities = <<>>]

\* The end of one turn of the for-of loop: the next athlete, or saveTokens.
NextAthlete(rec) ==
    IF rec.idx < Len(rec.athleteIds)
    THEN [rec EXCEPT !.pc = "refresh", !.idx = rec.idx + 1, !.accessToken = 0,
                     !.page = 0, !.allActivities = <<>>]
    ELSE [rec EXCEPT !.pc = "saveTokens", !.idx = 0, !.accessToken = 0,
                     !.page = 0, !.allActivities = <<>>]

\* Lines 162-184: the athlete's breakdown, pushed and aggregated.
RecordAthlete(rec, athleteId, activities) ==
    LET breakdown == calculateDistanceBreakdown(activities)
    IN [rec EXCEPT
          !.totalDistance = NumberAdd(rec.totalDistance, breakdown.total),
          !.athleteStats = Append(rec.athleteStats,
                                  [name |-> athleteId, distance |-> breakdown.total,
                                   activityCount |-> Len(activities),
                                   byType |-> breakdown.byType]),
          !.activityTypeBreakdown = AggregateTypes(rec.activityTypeBreakdown, breakdown.byType)]

\* A variant of ReadTokens that, when the file does not parse, carries on with
\* the athletes of the last complete file.
ReadTokensIgnoresError(r) ==
    /\ run[r].pc = "readTokens"
    /\ run' = [run EXCEPT ![r] =
          IF DOMAIN tokensFile = {}
          THEN IdleRun
          ELSE NextAthlete([@ EXCEPT !.tokens = tokensFile, !.loaded = tokensFile,
                                     !.athleteIds = ObjectKeys(tokensFile)])]
    /\ lastLog' = IF DOMAIN tokensFile = {} THEN "No athletes connected yet." ELSE lastLog
    /\ UNCHANGED <<now, latest, tokensFile, tokensTorn, statsFile, statsTorn, cb, adm, ops, reply, call, expiries, missing, session>>

\* A variant of ReadTokens without the early return for an empty store.
ReadTokensNoEarlyReturn(r) ==
    /\ run[r].pc = "readTokens"
    /\ run' = [run EXCEPT ![r] =
          IF tokensTorn \/ "tokens" \in missing
          THEN IdleRun
          ELSE NextAthlete([@ EXCEPT !.tokens = tokensFile, !.loaded = tokensFile,
                                     !.athleteIds = ObjectKeys(tokensFile)])]
    /\ lastLog' = IF tokensTorn \/ "tokens" \in missing THEN "Error in data collection:"
                  ELSE lastLog
    /\ UNCHANGED <<now, latest, tokensFile, tokensTorn, statsFile, statsTorn, cb, adm, ops, reply, call, expiries, missing, session>>

\* const tokens = await readTokens(); ... up to the first athlete.  A file
\* that is being written does not parse, one that does not exist cannot be
\* read: the outer catch ends the run.
ReadTokens(r) ==
    /\ run[r].pc = "readTokens"
    /\ run' = [run EXCEPT ![r] =
          IF tokensTorn \/ "tokens" \in missing
          THEN IdleRun
          ELSE IF DOMAIN tokensFile = {}
          THEN IdleRun
          ELSE NextAthlete([@ EXCEPT !.tokens = tokensFile, !.loaded = tokensFile,
                                     !.athleteIds = ObjectKeys(tokensFile)])]
    /\ lastLog' = IF tokensTorn \/ "tokens" \in missing THEN "Error in data collection:"
                  ELSE IF DOMAIN tokensFile = {} THEN "No athletes connected yet."
                  ELSE lastLog
    /\ UNCHANGED <<now, latest, tokensFile, tokensTorn, statsFile, statsTorn, cb, adm, ops, reply, call, expiries, missing, session>>

\* const accessToken = await refreshAccessToken(athleteData);
RefreshToken(r) ==
    /\ run[r].pc = "refresh"
    /\ LET u == CurrentAthlete(r)
           athleteData == run[r].tokens[u]
       IN \E response \in RefreshResponses(u, athleteData.refreshToken) :
            LET res == refreshAccessToken(athleteData, now, response)
                rec == [run[r] EXCEPT
                          !.tokens[u] = res.record,
                          !.accessToken = res.accessToken,
                          !.posted = IF res.posted THEN @ \cup {u} ELSE @,
                          !.refreshFailed = IF res.threw THEN @ \cup {u} ELSE @]
            IN /\ run' = [run EXCEPT ![r] =
                     IF res.threw THEN NextAthlete(rec)
                     ELSE [rec EXCEPT !.pc = "fetch", !.page = 1]]
               /\ latest' = IF res.posted /\ response.ok
                            THEN [latest EXCEPT ![u] = response.refresh_token]
                            ELSE latest
               /\ expiries' = IF res.posted /\ response.ok
                              THEN [expiries EXCEPT ![u] = Append(@, response.expires_at)]
                              ELSE expiries
    /\ UNCHANGED <<now, tokensFile, tokensTorn, statsFile, statsTorn, cb, adm, ops, reply, call, lastLog, missing, session>>

\* One request of fetchActivities and, when it was the last, the rest of the
\* loop body for this athlete.
FetchPage(r) ==
    /\ run[r].pc = "fetch"
    /\ LET u == CurrentAthlete(r)
       IN \E ok \in BOOLEAN :
            LET step == fetchActivitiesStep(run[r].allActivities, run[r].page, ok,
                                            ProviderPage(u, run[r].page))
                rec == [run[r] EXCEPT
                          !.fetchFailed = IF ok THEN @ ELSE @ \cup {u}]
            IN run' = [run EXCEPT ![r] =
                 IF step.done
                 THEN NextAthlete(RecordAthlete(rec, u, step.allActivities))
                 ELSE [rec EXCEPT !.allActivities = step.allActivities,
                                  !.page = step.page]]
    /\ UNCHANGED <<now, latest, tokensFile, tokensTorn, statsFile, statsTorn, cb, adm, ops, reply, call, lastLog, expiries, missing, session>>

\* await saveTokens(tokens): fs.writeFile opens the file with O_TRUNC ...
SaveTokensBegin(r) ==
    /\ run[r].pc = "saveTokens"
    /\ tokensTorn' = TRUE
    /\ run' = [run EXCEPT ![r].pc = "savingTokens"]
    /\ missing' = missing \ {"tokens"}
    /\ UNCHANGED <<now, latest, tokensFile, statsFile, statsTorn, cb, adm, ops, reply, call, lastLog, expiries, session>>

\* ... and then writes the data; the sort and the stats object follow.
SaveTokensEnd(r) ==
    /\ run[r].pc = "savingTokens"
    /\ tokensFile' = run[r].tokens
    /\ tokensTorn' = FALSE
    /\ run' = [run EXCEPT ![r].pc = "writeStats",
                          ![r].stats = BuildStats(run[r].totalDistance, run[r].athleteStats,
                                                  run[r].activityTypeBreakdown)]
    /\ UNCHANGED <<now, latest, statsFile, statsTorn, cb, adm, ops, reply, call, lastLog, expiries, missing, session>>

\* await fs.writeFile(STATS_FILE, ...)
WriteStatsBegin(r) ==
    /\ run[r].pc = "writeStats"
    /\ statsTorn' = TRUE
    /\ run' = [run EXCEPT ![r].pc = "writingStats"]
    /\ missing' = missing \ {"stats"}
    /\ UNCHANGED <<now, latest, tokensFile, tokensTorn, statsFile, cb, adm, ops, reply, call, lastLog, expiries, session>>

\* ... and the process exits.
WriteStatsEnd(r) ==
    /\ run[r].pc = "writingStats"
    /\ statsFile' = run[r].stats
    /\ statsTorn' = FALSE
    /\ run' = [run EXCEPT ![r] = IdleRun]
    /\ lastLog' = "Stats saved successfully!"
    /\ UNCHANGED <<now, latest, tokensFile, tokensTorn, cb, adm, ops, reply, call, expiries, missing, session>>

\* ------------------------------------------------------ GET /auth/callback
\* The code exchange; on success the handler goes on to readTokens.
CallbackExchange(u) ==
    /\ cb.pc = "idle"
    /\ MayStart
    /\ ops' = ops + 1
    /\ \E response \in ExchangeResponses(u) :
         /\ response.ok
         /\ latest' = [latest EXCEPT ![u] = response.refresh_token]
         /\ expiries' = [expiries EXCEPT ![u] = Append(@, response.expires_at)]
         /\ cb' = [cb EXCEPT !.pc = "readTokens", !.athleteId = u, !.record = response]
    /\ UNCHANGED <<now, tokensFile, tokensTorn, statsFile, statsTorn, run, adm, reply, call, lastLog, missing, session>>

\* A variant of CallbackRead that stores the new record in an object of its own.
CallbackReadFresh ==
    /\ cb.pc = "readTokens"
    /\ cb' = IF tokensTorn \/ "tokens" \in missing THEN IdleHandler
             ELSE [cb EXCEPT !.pc = "saveTokens",
                             !.tokens = SetKey(EmptyObject, cb.athleteId,
                                               NewRecord(cb.athleteId, cb.record, now))]
    /\ UNCHANGED <<now, latest, tokensFile, tokensTorn, statsFile, statsTorn, run, adm, ops, reply, call, lastLog, expiries, missing, session>>

\* const tokens = await readTokens(); tokens[athlete.id] = {...};
CallbackRead ==
    /\ cb.pc = "readTokens"
    /\ cb' = IF tokensTorn \/ "tokens" \in missing THEN IdleHandler
             ELSE [cb EXCEPT !.pc = "saveTokens",
                             !.tokens = SetKey(tokensFile, cb.athleteId,
                                               NewRecord(cb.athleteId, cb.record, now))]
    /\ UNCHANGED <<now, latest, tokensFile, tokensTorn, statsFile, statsTorn, run, adm, ops, reply, call, lastLog, expiries, missing, session>>

CallbackSaveBegin ==
    /\ cb.pc = "saveTokens"
    /\ tokensTorn' = TRUE
    /\ cb' = [cb EXCEPT !.pc = "savingTokens"]
    /\ missing' = missing \ {"tokens"}
    /\ UNCHANGED <<now, latest, tokensFile, statsFile, statsTorn, run, adm, ops, reply, call, lastLog, expiries, session>>

CallbackSaveEnd ==
    /\ cb.pc = "savingTokens"
    /\ tokensFile' = cb.tokens
    /\ tokensTorn' = FALSE
    /\ cb' = IdleHandler
    /\ UNCHANGED <<now, latest, statsFile, statsTorn, run, adm, ops, reply, call, lastLog, expiries, missing, session>>

\* ------------------------------------------ DELETE /api/athletes/:athleteId
\* readTokens, the 404 test and delete tokens[athleteId].
AdminRemoveRead(u) ==
    /\ adm.pc = "idle"
    /\ MayStart
    /\ ops' = ops + 1
    /\ ~tokensTorn
    /\ "tokens" \notin missing
    /\ IF u \in DOMAIN tokensFile
       THEN /\ adm' = [adm EXCEPT !.pc = "saveTokens", !.athleteId = u,
                                  !.tokens = DeleteKey(tokensFile, u)]
            /\ UNCHANGED reply
       ELSE /\ reply' = [route |-> "remove", status |-> 404, athleteId |-> u]
            /\ UNCHANGED adm
    /\ UNCHANGED <<now, latest, tokensFile, tokensTorn, statsFile, statsTorn, run, cb, call, lastLog, expiries, missing, session>>

AdminRemoveSaveBegin ==
    /\ adm.pc = "saveTokens"
    /\ tokensTorn' = TRUE
    /\ adm' = [adm EXCEPT !.pc = "savingTokens"]
    /\ missing' = missing \ {"tokens"}
    /\ UNCHANGED <<now, latest, tokensFile, statsFile, statsTorn, run, cb, ops, reply, call, lastLog, expiries, session>>

AdminRemoveSaveEnd ==
    /\ adm.pc = "savingTokens"
    /\ tokensFile' = adm.tokens
    /\ tokensTorn' = FALSE
    /\ adm' = IdleHandler
    /\ reply' = [route |-> "remove", status |-> 200, athleteId |-> adm.athleteId]
    /\ UNCHANGED <<now, latest, statsFile, statsTorn, run, cb, ops, call, lastLog, expiries, missing, session>>

\* ------------------------------------------------------------ GET /api/stats
\* fs.readFile and JSON.parse of stats.json: a file that is being written does
\* not parse, one that does not exist cannot be read, and the handler answers
\* 500; otherwise it answers with the content.
GetStats ==
    /\ MayStart
    /\ ops' = ops + 1
    /\ reply' = IF statsTorn \/ "stats" \in missing
                THEN [route |-> "stats", status |-> 500]
                ELSE [route |-> "stats", status |-> 200, body |-> statsFile]
    /\ UNCHANGED <<now, latest, tokensFile, tokensTorn, statsFile, statsTorn, run, cb, adm, call, lastLog, expiries, missing, session>>

\* ------------------------------------------- fetchActivities on its own
\* A fresh installation: nobody connected, nothing running.
Installed ==
    /\ now = 0
    /\ latest = [u \in Users |-> 0]
    /\ expiries = [u \in Users |-> <<>>]
    /\ missing = {}
    /\ session = [s \in Sessions |-> NoSession]
    /\ tokensFile = EmptyObject
    /\ tokensTorn = FALSE
    /\ statsFile = BaselineStats
    /\ statsTorn = FALSE
    /\ run = [r \in Runs |-> IdleRun]
    /\ cb = IdleHandler
    /\ adm = IdleHandler
    /\ ops = 0
    /\ reply = NoReply
    /\ lastLog = ""

\* fetchActivities(accessToken, startDate, endDate) is called for an athlete
\* with the given activities in the window.  requests: the pages asked for so
\* far; failed: a request has failed; done: the function has returned
\* allActivities.
FetchCall(activities) ==
    [fn |-> "fetchActivities", activities |-> activities, allActivities |-> <<>>,
     page |-> 1, requests |-> <<>>, failed |-> FALSE, done |-> FALSE]

InitFetch == Installed /\ \E activities \in ActivityLists : call = FetchCall(activities)

\* One axios.get of the while loop and what follows it up to the next one.
FetchRequest ==
    /\ call.fn = "fetchActivities"
    /\ ~call.done
    /\ \E ok \in BOOLEAN :
         LET step == fetchActivitiesStep(call.allActivities, call.page, ok,
                                         PageOf(call.activities, call.page))
         IN call' = [call EXCEPT !.allActivities = step.allActivities,
                                 !.page = step.page,
                                 !.done = step.done,
                                 !.requests = Append(@, call.page),
                                 !.failed = @ \/ ~ok]
    /\ UNCHANGED <<now, latest, tokensFile, tokensTorn, statsFile, statsTorn, run, cb, adm, ops, reply, lastLog, expiries, missing, session>>

NextFetch == FetchRequest

SpecFetch == InitFetch /\ [][NextFetch]_vars

\* ------------------------------------- the aggregation of collectData on its own
\* What fetchActivities can have returned for an athlete.
AthleteProfiles ==
    {<<>>,
     <<[type |-> ""]>>,
     <<[distance |-> 3000, type |-> "Ride"]>>,
     <<[distance |-> 5000, type |-> "Run"], [distance |-> 5000, type |-> "Run"],
       [distance |-> 3000, type |-> "Ride"], [distance |-> 3000, type |-> "Ride"]>>}

\* The orders in which n athletes can be processed.
Orders(n) == {o \in [1..n -> 1..n] : \A i, j \in 1..n : i # j => o[i] # o[j]}

\* let totalDistance = 0; const athleteStats = []; const activityTypeBreakdown = {};
NoAthleteYet == [totalDistance |-> 0, athleteStats |-> <<>>, activityTypeBreakdown |-> EmptyObject]

\* The loop of collectData from the breakdown on, for athletes 1..n whose
\* fetches returned activities[1..n], carried out twice: in the order of the
\* store (inOrder) and in the order `order` (permuted).  idx athletes are done.
CombineCall(activities, order) ==
    [fn |-> "collectData", activities |-> activities, order |-> order, idx |-> 0,
     inOrder |-> NoAthleteYet, permuted |-> NoAthleteYet,
     permutedStats |-> BaselineStats, done |-> FALSE]

InitCombine ==
    /\ Installed
    /\ \E n \in 0..MaxAthletes : \E activities \in [1..n -> AthleteProfiles] :
         \E order \in Orders(n) : call = CombineCall(activities, order)

\* Lines 162-184 for the next athlete of either order.
CombineAthlete ==
    /\ call.fn = "collectData"
    /\ call.idx < Len(call.activities)
    /\ LET i == call.idx + 1
           j == call.order[call.idx + 1]
       IN call' = [call EXCEPT
                     !.idx = i,
                     !.inOrder = RecordAthlete(@, i, call.activities[i]),
                     !.permuted = RecordAthlete(@, j, call.activities[j])]
    /\ UNCHANGED <<now, latest, tokensFile, tokensTorn, statsFile, statsTorn, run, cb, adm, ops, reply, lastLog, expiries, missing, session>>

\* Lines 195-211: the sort, the stats object and its write.
CombineWrite ==
    /\ call.fn = "collectData"
    /\ call.idx = Len(call.activities)
    /\ ~call.done
    /\ statsFile' = BuildStats(call.inOrder.totalDistance, call.inOrder.athleteStats,
                               call.inOrder.activityTypeBreakdown)
    /\ call' = [call EXCEPT
                  !.done = TRUE,
                  !.permutedStats = BuildStats(call.permuted.totalDistance,
                                               call.permuted.athleteStats,
                                               call.permuted.activityTypeBreakdown)]
    /\ UNCHANGED <<now, latest, tokensFile, tokensTorn, statsTorn, run, cb, adm, ops, reply, lastLog, expiries, missing, session>>

NextCombine ==
    \/ CombineAthlete
    \/ CombineWrite

SpecCombine == InitCombine /\ [][NextCombine]_vars

\* -------------------------------- calculateDistanceBreakdown on its own
\* Activities as the provider can report them: with and without a distance,
\* with a type, with an empty type and with none, and with types that differ
\* in case only.
BreakdownKinds ==
    {[distance |-> 5000, type |-> "Run"], [distance |-> 2000, type |-> "run"],
     [distance |-> 3000, type |-> "Ride"], [type |-> "Ride"],
     [distance |-> 4000], [type |-> ""]}

BreakdownLists == UNION {[1..n -> BreakdownKinds] : n \in 0..MaxBreakdown}

\* calculateDistanceBreakdown(activities): idx activities have gone through
\* the forEach, breakdown is the object built so far.
BreakdownCall(activities) ==
    [fn |-> "calculateDistanceBreakdown", activities |-> activities, idx |-> 0,
     breakdown |-> [total |-> 0, byType |-> EmptyObject]]

InitBreakdown == Installed /\ \E activities \in BreakdownLists : call = BreakdownCall(activities)

\* One turn of activities.forEach.
BreakdownEach ==
    /\ call.fn = "calculateDistanceBreakdown"
    /\ call.idx < Len(call.activities)
    /\ call' = [call EXCEPT !.idx = @ + 1,
                            !.breakdown = AddActivity(@, call.activities[call.idx + 1])]
    /\ UNCHANGED <<now, latest, tokensFile, tokensTorn, statsFile, statsTorn, run, cb, adm, ops, reply, lastLog, expiries, missing, session>>

NextBreakdown == BreakdownEach

SpecBreakdown == InitBreakdown /\ [][NextBreakdown]_vars

\* ------------------------------------------- refreshAccessToken on its own
\* refreshAccessToken(athleteData) is called twice, one call right after the
\* other, on the record of an athlete who connected some time ago; the record
\* holds the token pair the provider issued last or an older one.  results:
\* what each call returned or that it threw; requests: the refresh requests
\* issued so far.
EnsureCall(athleteData) ==
    [fn |-> "refreshAccessToken", given |-> athleteData, athleteData |-> athleteData,
     results |-> <<>>, requests |-> 0]

InitEnsure ==
    /\ now \in 0..MaxTime
    /\ \E u \in Users : \E issued \in 1..MaxIssued : \E generation \in 1..issued :
         \E expiresAt \in 0..(MaxTime + TokenTTL) :
           /\ latest = [v \in Users |-> IF v = u THEN issued ELSE 0]
           /\ expiries = [v \in Users |-> IF v = u THEN [i \in 1..issued |-> expiresAt] ELSE <<>>]
           /\ call = EnsureCall([athleteId |-> u, accessToken |-> generation,
                                 refreshToken |-> generation, expiresAt |-> expiresAt,
                                 connectedAt |-> 0])
    /\ tokensFile = EmptyObject
    /\ tokensTorn = FALSE
    /\ statsFile = BaselineStats
    /\ statsTorn = FALSE
    /\ run = [r \in Runs |-> IdleRun]
    /\ cb = IdleHandler
    /\ adm = IdleHandler
    /\ ops = 0
    /\ reply = NoReply
    /\ lastLog = ""
    /\ missing = {}
    /\ session = [s \in Sessions |-> NoSession]

\* One call of refreshAccessToken(athleteData).
EnsureValid ==
    /\ call.fn = "refreshAccessToken"
    /\ Len(call.results) < 2
    /\ LET u == call.athleteData.athleteId
       IN \E response \in RefreshResponses(u, call.athleteData.refreshToken) :
            LET res == refreshAccessToken(call.athleteData, now, response)
            IN /\ call' = [call EXCEPT
                             !.athleteData = res.record,
                             !.results = Append(@, [threw |-> res.threw,
                                                    accessToken |-> res.accessToken]),
                             !.requests = IF res.posted THEN @ + 1 ELSE @]
               /\ latest' = IF res.posted /\ response.ok
                            THEN [latest EXCEPT ![u] = response.refresh_token]
                            ELSE latest
               /\ expiries' = IF res.posted /\ response.ok
                              THEN [expiries EXCEPT ![u] = Append(@, response.expires_at)]
                              ELSE expiries
    /\ UNCHANGED <<now, tokensFile, tokensTorn, statsFile, statsTorn, run, cb, adm, ops, reply, lastLog, missing, session>>

NextEnsure == EnsureValid

SpecEnsure == InitEnsure /\ [][NextEnsure]_vars

\* --------------------------------------- saveTokens and readTokens on their own
\* The text of a file is a sequence of characters; a name is one character
\* here.  Tokens and timestamps, strings in the program, are numbers in the
\* model and are written as the string of their digits.
DigitChars == <<"0", "1", "2", "3", "4", "5", "6", "7", "8", "9">>

\* A variant of NumberToString that writes the last digit only.
NumberToStringLastDigit(n) == <<DigitChars[(n % 10) + 1]>>

\* String(n) for an integer n >= 0
RECURSIVE NumberToString(_)
NumberToString(n) ==
    IF n < 10 THEN <<DigitChars[n + 1]>>
    ELSE NumberToString(n \div 10) \o <<DigitChars[(n % 10) + 1]>>

Quote(chars) == <<"\"">> \o chars \o <<"\"">>

\* The properties of a record in the order in which GET /auth/callback creates
\* them, and those whose values are strings.
RecordFields == <<"athleteId", "accessToken", "refreshToken", "expiresAt", "connectedAt">>

StringFields == {"accessToken", "refreshToken", "connectedAt"}

\* JSON.stringify of the properties `names` of a record, and of a record.
RECURSIVE StringifyMembers(_, _)
StringifyMembers(record, names) ==
    IF names = <<>> THEN <<>>
    ELSE Quote(<<names[1]>>) \o <<":">>
         \o (IF names[1] \in StringFields
             THEN Quote(NumberToString(record[names[1]]))
             ELSE NumberToString(record[names[1]]))
         \o (IF Len(names) > 1 THEN <<",">> ELSE <<>>)
         \o StringifyMembers(record, Tail(names))

StringifyRecord(record) ==
    <<"{">> \o StringifyMembers(record, SelectSeq(RecordFields, LAMBDA f : f \in DOMAIN record))
            \o <<"}">>

\* JSON.stringify(tokens, null, 2), without the white space: the keys in the
\* order of Object.keys.
RECURSIVE StringifyEntries(_, _)
StringifyEntries(tokens, keys) ==
    IF keys = <<>> THEN <<>>
    ELSE Quote(NumberToString(keys[1])) \o <<":">> \o StringifyRecord(tokens[keys[1]])
         \o (IF Len(keys) > 1 THEN <<",">> ELSE <<>>)
         \o StringifyEntries(tokens, Tail(keys))

JSONStringify(tokens) == <<"{">> \o StringifyEntries(tokens, ObjectKeys(tokens)) \o <<"}">>

\* JSON.parse, by recursive descent.  Each parser takes the text from the
\* place it starts at and gives the value it has read and the text after it.
IsDigit(c) == \E d \in 1..10 : DigitChars[d] = c

DigitValue(c) == (CHOOSE d \in 1..10 : DigitChars[d] = c) - 1

RECURSIVE ParseNumber(_, _)
ParseNumber(text, read) ==
    IF text # <<>> /\ IsDigit(text[1])
    THEN ParseNumber(Tail(text), 10 * read + DigitValue(text[1]))
    ELSE [value |-> read, rest |-> text]

\* A string: the characters between the quote at text[1] and the next one.
ParseString(text) ==
    LET close == CHOOSE i \in 2..Len(text) :
                    text[i] = "\"" /\ \A j \in 2..(i - 1) : text[j] # "\""
    IN [value |-> SubSeq(text, 2, close - 1), rest |-> SubSeq(text, close + 1, Len(text))]

ParseValue(text) ==
    IF text[1] = "\""
    THEN LET str == ParseString(text)
         IN [value |-> ParseNumber(str.value, 0).value, rest |-> str.rest]
    ELSE ParseNumber(text, 0)

\* The members of a record from the first name on, up to the closing brace.
RECURSIVE ParseMembers(_, _)
ParseMembers(text, read) ==
    IF text[1] = "}" THEN [value |-> read, rest |-> Tail(text)]
    ELSE IF text[1] = "," THEN ParseMembers(Tail(text), read)
    ELSE LET name == ParseString(text)
             val == ParseValue(Tail(name.rest))
         IN ParseMembers(val.rest, read @@ (name.value[1] :> val.value))

\* The entries of the credential object from the first key on.
RECURSIVE ParseEntries(_, _)
ParseEntries(text, read) ==
    IF text[1] = "}" THEN [value |-> read, rest |-> Tail(text)]
    ELSE IF text[1] = "," THEN ParseEntries(Tail(text), read)
    ELSE LET key == ParseString(text)
             record == ParseMembers(Tail(Tail(key.rest)), EmptyObject)
         IN ParseEntries(record.rest,
                         read @@ (ParseNumber(key.value, 0).value :> record.value))

JSONParse(text) == ParseEntries(Tail(text), EmptyObject).value

\* The athlete ids and the numbers the fields of a record are drawn from: of
\* one digit and of more, with zeros in them.
StoreAthletes == {1, 2, 10}

StoreNumbers == {0, 7, 10, 209}

StoreRecords(u) ==
    {[athleteId |-> u, accessToken |-> g, refreshToken |-> g, expiresAt |-> e, connectedAt |-> c] :
        g \in 1..MaxIssued, e \in StoreNumbers, c \in {0, 10}}

\* The valid record sets: every record under the key of its athlete.
StoreMappings ==
    UNION {{tokens \in [athletes -> UNION {StoreRecords(u) : u \in athletes}] :
               \A u \in athletes : tokens[u].athleteId = u} : athletes \in SUBSET StoreAthletes}

\* saveTokens(tokens) and then readTokens().  file: the text of
\* athlete_tokens.json, at first as initializeFiles has written it; read: what
\* readTokens has returned.
StoreCall(tokens) ==
    [fn |-> "saveTokens", pc |-> "saveTokens", tokens |-> tokens,
     file |-> JSONStringify(EmptyObject), read |-> EmptyObject]

InitStore == Installed /\ \E tokens \in StoreMappings : call = StoreCall(tokens)

\* await fs.writeFile(TOKENS_FILE, JSON.stringify(tokens, null, 2));
StoreSave ==
    /\ call.fn = "saveTokens"
    /\ call.pc = "saveTokens"
    /\ call' = [call EXCEPT !.pc = "readTokens", !.file = JSONStringify(call.tokens)]
    /\ UNCHANGED <<now, latest, tokensFile, tokensTorn, statsFile, statsTorn, run, cb, adm, ops, reply, lastLog, expiries, missing, session>>

\* return JSON.parse(await fs.readFile(TOKENS_FILE, 'utf8'));
StoreRead ==
    /\ call.fn = "saveTokens"
    /\ call.pc = "readTokens"
    /\ call' = [call EXCEPT !.pc = "done", !.read = JSONParse(call.file)]
    /\ UNCHANGED <<now, latest, tokensFile, tokensTorn, statsFile, statsTorn, run, cb, adm, ops, reply, lastLog, expiries, missing, session>>

NextStore ==
    \/ StoreSave
    \/ StoreRead

SpecStore == InitStore /\ [][NextStore]_vars

\* ------------------------------------------- the tracking period on its own
\* Math.floor(new Date(date).getTime() / 1000) for a date YYYY-MM-DD: the
\* instant at which that day begins in UTC.
MidnightUTC(day) == day * SecondsPerDay

\* The day an instant falls on.
DayOf(t) == t \div SecondsPerDay

\* The instants from the day before the tracking period to the day after it.
Instants == MidnightUTC(START_DATE - 1)..(MidnightUTC(END_DATE + 2) - 1)

\* The activities an athlete can have: runs of 5 km that started at start_date.
TimedActivities ==
    UNION {[1..n -> {[distance |-> 5000, type |-> "Run", start_date |-> t] : t \in Instants}] :
              n \in 0..MaxInWindow}

\* GET /athlete/activities?after=..&before=..: the activities that started
\* after `after` and before `before`; whether the provider takes one that
\* started exactly at a boundary is its own matter (atBoundary).
ProviderInWindow(activities, after, before, atBoundary) ==
    SelectSeq(activities,
              LAMBDA a : \/ after < a.start_date /\ a.start_date < before
                         \/ atBoundary /\ a.start_date \in {after, before})

\* fetchActivities(accessToken, START_DATE, END_DATE) and the breakdown of
\* what it returns, for an athlete with the given activities.
WindowCall(activities, atBoundary) ==
    [fn |-> "fetchActivities in the tracking period", activities |-> activities,
     atBoundary |-> atBoundary, done |-> FALSE, after |-> 0, before |-> 0,
     allActivities |-> <<>>, breakdown |-> [total |-> 0, byType |-> EmptyObject]]

InitWindow ==
    /\ Installed
    /\ \E activities \in TimedActivities : \E atBoundary \in BOOLEAN :
         call = WindowCall(activities, atBoundary)

\* The requests with after = startTimestamp and before = endTimestamp, none of
\* them failing, up to the breakdown of the activities returned.
WindowFetch ==
    /\ call.fn = "fetchActivities in the tracking period"
    /\ ~call.done
    /\ LET startTimestamp == MidnightUTC(START_DATE)
           endTimestamp == MidnightUTC(END_DATE)
           allActivities == ProviderInWindow(call.activities, startTimestamp, endTimestamp,
                                             call.atBoundary)
       IN call' = [call EXCEPT !.done = TRUE,
                               !.after = startTimestamp,
                               !.before = endTimestamp,
                               !.allActivities = allActivities,
                               !.breakdown = calculateDistanceBreakdown(allActivities)]
    /\ UNCHANGED <<now, latest, tokensFile, tokensTorn, statsFile, statsTorn, run, cb, adm, ops, reply, lastLog, expiries, missing, session>>

NextWindow == WindowFetch

SpecWindow == InitWindow /\ [][NextWindow]_vars

\* ------------------------------------------------------- initializeFiles
\* app.listen(PORT, async () => { await initializeFiles(); ... }): the server
\* is listening and other processes are running while the function goes
\* through its steps.  call.pc is the place it is at.
InitializeCall == [fn |-> "initializeFiles", pc |-> "accessTokens"]

\* The server starts in a directory in which either file may be there or not;
\* athletes can be in the credential file only if it is there.
InitStart ==
    /\ now = 0
    /\ missing \in SUBSET {"tokens", "stats"}
    /\ session = [s \in Sessions |-> NoSession]
    /\ \E connected \in SUBSET Users :
         /\ "tokens" \in missing => connected = {}
         /\ latest = [u \in Users |-> IF u \in connected THEN 1 ELSE 0]
         /\ expiries = [u \in Users |-> IF u \in connected THEN <<TokenTTL>> ELSE <<>>]
         /\ tokensFile = [u \in connected |->
                            NewRecord(u, [ok |-> TRUE, access_token |-> 1, refresh_token |-> 1,
                                          expires_at |-> TokenTTL], 0)]
    /\ tokensTorn = FALSE
    /\ statsFile = BaselineStats
    /\ statsTorn = FALSE
    /\ run = [r \in Runs |-> IdleRun]
    /\ cb = IdleHandler
    /\ adm = IdleHandler
    /\ ops = 0
    /\ reply = NoReply
    /\ lastLog = ""
    /\ call = InitializeCall

\* try { await fs.access(TOKENS_FILE); } catch { ...
InitializeAccessTokens ==
    /\ call.fn = "initializeFiles"
    /\ call.pc = "accessTokens"
    /\ call' = [call EXCEPT !.pc = IF "tokens" \in missing THEN "writeTokens" ELSE "accessStats"]
    /\ UNCHANGED <<now, latest, tokensFile, tokensTorn, statsFile, statsTorn, run, cb, adm, ops, reply, lastLog, expiries, missing, session>>

\* ... await fs.writeFile(TOKENS_FILE, JSON.stringify({})); }: the file is
\* opened, created or truncated ...
InitializeWriteTokensBegin ==
    /\ call.fn = "initializeFiles"
    /\ call.pc = "writeTokens"
    /\ call' = [call EXCEPT !.pc = "writingTokens"]
    /\ tokensTorn' = TRUE
    /\ missing' = missing \ {"tokens"}
    /\ UNCHANGED <<now, latest, tokensFile, statsFile, statsTorn, run, cb, adm, ops, reply, lastLog, expiries, session>>

\* ... and written.
InitializeWriteTokensEnd ==
    /\ call.fn = "initializeFiles"
    /\ call.pc = "writingTokens"
    /\ call' = [call EXCEPT !.pc = "accessStats"]
    /\ tokensFile' = EmptyObject
    /\ tokensTorn' = FALSE
    /\ UNCHANGED <<now, latest, statsFile, statsTorn, run, cb, adm, ops, reply, lastLog, expiries, missing, session>>

\* try { await fs.access(STATS_FILE); } catch { ...
InitializeAccessStats ==
    /\ call.fn = "initializeFiles"
    /\ call.pc = "accessStats"
    /\ call' = [call EXCEPT !.pc = IF "stats" \in missing THEN "writeStats" ELSE "done"]
    /\ UNCHANGED <<now, latest, tokensFile, tokensTorn, statsFile, statsTorn, run, cb, adm, ops, reply, lastLog, expiries, missing, session>>

\* ... await fs.writeFile(STATS_FILE, JSON.stringify({totalDistance: 0, ...})); }
InitializeWriteStatsBegin ==
    /\ call.fn = "initializeFiles"
    /\ call.pc = "writeStats"
    /\ call' = [call EXCEPT !.pc = "writingStats"]
    /\ statsTorn' = TRUE
    /\ missing' = missing \ {"stats"}
    /\ UNCHANGED <<now, latest, tokensFile, tokensTorn, statsFile, run, cb, adm, ops, reply, lastLog, expiries, session>>

InitializeWriteStatsEnd ==
    /\ call.fn = "initializeFiles"
    /\ call.pc = "writingStats"
    /\ call' = [call EXCEPT !.pc = "done"]
    /\ statsFile' = BaselineStats
    /\ statsTorn' = FALSE
    /\ UNCHANGED <<now, latest, tokensFile, tokensTorn, run, cb, adm, ops, reply, lastLog, expiries, missing, session>>

initializeFiles ==
    \/ InitializeAccessTokens
    \/ InitializeWriteTokensBegin
    \/ InitializeWriteTokensEnd
    \/ InitializeAccessStats
    \/ InitializeWriteStatsBegin
    \/ InitializeWriteStatsEnd

\* ------------------------------------------------------------------- spec
Next ==
    \/ Tick
    \/ CronJob
    \/ TriggerCollect
    \/ \E r \in Runs : ReadTokens(r)
    \/ \E r \in Runs : RefreshToken(r)
    \/ \E r \in Runs : FetchPage(r)
    \/ \E r \in Runs : SaveTokensBegin(r)
    \/ \E r \in Runs : SaveTokensEnd(r)
    \/ \E r \in Runs : WriteStatsBegin(r)
    \/ \E r \in Runs : WriteStatsEnd(r)
    \/ \E u \in Users : CallbackExchange(u)
    \/ CallbackRead
    \/ CallbackSaveBegin
    \/ CallbackSaveEnd
    \/ \E u \in Users : AdminRemoveRead(u)
    \/ AdminRemoveSaveBegin
    \/ AdminRemoveSaveEnd

Spec == Init /\ [][Next]_vars

\* The collection runs alone: the server handles no callback and no removal.
NextRuns ==
    \/ Tick
    \/ CronJob
    \/ TriggerCollect
    \/ \E r \in Runs : ReadTokens(r)
    \/ \E r \in Runs : RefreshToken(r)
    \/ \E r \in Runs : FetchPage(r)
    \/ \E r \in Runs : SaveTokensBegin(r)
    \/ \E r \in Runs : SaveTokensEnd(r)
    \/ \E r \in Runs : WriteStatsBegin(r)
    \/ \E r \in Runs : WriteStatsEnd(r)

SpecRuns == Init /\ [][NextRuns]_vars

\* -------------------------------------------------- the admin session
\* const ADMIN_PASSWORD = process.env.ADMIN_PASSWORD || 'change_this_password'
ADMIN_PASSWORD == "change_this_password"

\* What a POST /api/admin/login can carry as req.body.password.
Passwords == {ADMIN_PASSWORD, "guess", "undefined"}

\* A variant of requireAdminSession that lets a request pass when anybody is
\* logged in.
requireAdminSessionAny(s) == \E t \in Sessions : session[t].isAdmin

\* requireAdminSession: TRUE when next() is called, FALSE when it answers 401.
requireAdminSession(s) == session[s].isAdmin

\* POST /api/admin/login
AdminLogin(s, password) ==
    /\ IF password = ADMIN_PASSWORD
       THEN /\ session' = [session EXCEPT ![s].isAdmin = TRUE]
            /\ reply' = [route |-> "login", status |-> 200, session |-> s, password |-> password]
       ELSE /\ reply' = [route |-> "login", status |-> 401, session |-> s, password |-> password]
            /\ UNCHANGED session
    /\ UNCHANGED <<now, latest, tokensFile, tokensTorn, statsFile, statsTorn, run, cb, adm, ops, lastLog, call, expiries, missing>>

\* POST /api/admin/logout: req.session.destroy
AdminLogout(s) ==
    /\ session' = [session EXCEPT ![s] = NoSession]
    /\ reply' = [route |-> "logout", status |-> 200, session |-> s]
    /\ UNCHANGED <<now, latest, tokensFile, tokensTorn, statsFile, statsTorn, run, cb, adm, ops, lastLog, call, expiries, missing>>

\* GET /api/admin/check
AdminCheck(s) ==
    /\ reply' = [route |-> "check", status |-> 200, session |-> s,
                 authenticated |-> session[s].isAdmin]
    /\ UNCHANGED <<now, latest, tokensFile, tokensTorn, statsFile, statsTorn, run, cb, adm, ops, lastLog, call, expiries, missing, session>>

\* GET /api/athletes/list
AdminList(s) ==
    /\ reply' = IF ~requireAdminSession(s)
                THEN [route |-> "list", status |-> 401, session |-> s]
                ELSE IF tokensTorn \/ "tokens" \in missing
                THEN [route |-> "list", status |-> 500, session |-> s]
                ELSE [route |-> "list", status |-> 200, session |-> s,
                      athletes |-> ObjectKeys(tokensFile)]
    /\ UNCHANGED <<now, latest, tokensFile, tokensTorn, statsFile, statsTorn, run, cb, adm, ops, lastLog, call, expiries, missing, session>>

\* DELETE /api/athletes/:athleteId from session s: requireAdminSession, then
\* the handler up to its saveTokens.
AdminDelete(s, u) ==
    /\ IF ~requireAdminSession(s)
       THEN /\ reply' = [route |-> "remove", status |-> 401, athleteId |-> u, session |-> s]
            /\ UNCHANGED <<adm, ops>>
       ELSE /\ adm.pc = "idle"
            /\ MayStart
            /\ ops' = ops + 1
            /\ IF tokensTorn \/ "tokens" \in missing
               THEN /\ reply' = [route |-> "remove", status |-> 500, athleteId |-> u, session |-> s]
                    /\ UNCHANGED adm
               ELSE IF u \in DOMAIN tokensFile
               THEN /\ adm' = [pc |-> "saveTokens", athleteId |-> u,
                               tokens |-> DeleteKey(tokensFile, u),
                               record |-> NoResponse, session |-> s]
                    /\ UNCHANGED reply
               ELSE /\ reply' = [route |-> "remove", status |-> 404, athleteId |-> u, session |-> s]
                    /\ UNCHANGED adm
    /\ UNCHANGED <<now, latest, tokensFile, tokensTorn, statsFile, statsTorn, run, cb, lastLog, call, expiries, missing, session>>

NextAdmin ==
    \/ \E s \in Sessions : \E password \in Passwords : AdminLogin(s, password)
    \/ \E s \in Sessions : AdminLogout(s)
    \/ \E s \in Sessions : AdminCheck(s)
    \/ \E s \in Sessions : AdminList(s)
    \/ \E s \in Sessions : \E u \in Users : AdminDelete(s, u)
    \/ AdminRemoveSaveBegin
    \/ AdminRemoveSaveEnd

SpecAdmin == Init /\ [][NextAdmin]_vars

\* --------------------------------- GET /auth/callback, the error branches
\* if (error) return res.send('... Authorization Failed ...'): no request to
\* the provider, no read of the store.
CallbackDenied ==
    /\ MayStart
    /\ ops' = ops + 1
    /\ reply' = [route |-> "callback", status |-> 200, body |-> "Authorization Failed"]
    /\ UNCHANGED <<now, latest, tokensFile, tokensTorn, statsFile, statsTorn, run, cb, adm, call, lastLog, expiries, missing, session>>

\* axios.post rejects: the catch answers 500.
CallbackExchangeFails(u) ==
    /\ MayStart
    /\ ops' = ops + 1
    /\ \E response \in ExchangeResponses(u) :
         /\ ~response.ok
         /\ reply' = [route |-> "callback", status |-> 500, body |-> "Error"]
    /\ UNCHANGED <<now, latest, tokensFile, tokensTorn, statsFile, statsTorn, run, cb, adm, call, lastLog, expiries, missing, session>>

NextCallback ==
    \/ NextRuns
    \/ CallbackDenied
    \/ \E u \in Users : CallbackExchangeFails(u)
    \/ \E u \in Users : CallbackExchange(u)
    \/ CallbackRead
    \/ CallbackSaveBegin
    \/ CallbackSaveEnd

SpecCallback == Init /\ [][NextCallback]_vars

\* ------------------------------------------- a saveTokens that fails
\* A variant of SaveTokensFail in which the run goes on to the stats write.
SaveTokensFailIgnored(r) ==
    /\ run[r].pc \in {"saveTokens", "savingTokens"}
    /\ run' = [run EXCEPT ![r].pc = "writeStats",
                          ![r].stats = BuildStats(run[r].totalDistance, run[r].athleteStats,
                                                  run[r].activityTypeBreakdown)]
    /\ lastLog' = "Error in data collection:"
    /\ UNCHANGED <<now, latest, tokensFile, tokensTorn, statsFile, statsTorn, cb, adm, ops, reply, call, expiries, missing, session>>

\* await saveTokens(tokens) rejects (the file cannot be opened, or the disk
\* fails under the write, which leaves the file as far as it was written):
\* control passes to the outer catch, which logs, and collectData returns.
SaveTokensFail(r) ==
    /\ run[r].pc \in {"saveTokens", "savingTokens"}
    /\ run' = [run EXCEPT ![r] = IdleRun]
    /\ lastLog' = "Error in data collection:"
    /\ UNCHANGED <<now, latest, tokensFile, tokensTorn, statsFile, statsTorn, cb, adm, ops, reply, call, expiries, missing, session>>

NextSaveFail ==
    \/ NextRuns
    \/ \E r \in Runs : SaveTokensFail(r)

SpecSaveFail == Init /\ [][NextSaveFail]_vars

\* The steps of the process of run r.  Every one of them is the continuation
\* of an await - of a file operation or of a request to the provider - and is
\* taken once the awaited operation has returned or failed.
RunStep(r) ==
    \/ ReadTokens(r)
    \/ RefreshToken(r)
    \/ FetchPage(r)
    \/ SaveTokensBegin(r)
    \/ SaveTokensEnd(r)
    \/ WriteStatsBegin(r)
    \/ WriteStatsEnd(r)

\* exec('node collect-data.js') once for each of the processes, at any time.
SpawnOnce(r) ==
    /\ run[r].pc = "idle"
    /\ ops < Cardinality(Runs)
    /\ ops' = ops + 1
    /\ run' = [run EXCEPT ![r].pc = "readTokens"]
    /\ UNCHANGED <<now, latest, tokensFile, tokensTorn, statsFile, statsTorn, cb, adm, reply, call, lastLog, expiries, missing, session>>

NextRunsOnce ==
    \/ Tick
    \/ \E r \in Runs : SpawnOnce(r)
    \/ \E r \in Runs : RunStep(r)

\* The collection runs when every awaited operation returns in the end.
SpecRunsFair == Init /\ [][NextRunsOnce]_vars /\ \A r \in Runs : WF_vars(RunStep(r))

\* The server starting up, with the collection runs and the callbacks that
\* come while it does.
NextStart ==
    \/ initializeFiles
    \/ NextRuns
    \/ \E u \in Users : CallbackExchange(u)
    \/ CallbackRead
    \/ CallbackSaveBegin
    \/ CallbackSaveEnd

SpecStart == InitStart /\ [][NextStart]_vars

\* The collection runs and the readers of stats.json.
NextStats ==
    \/ NextRuns
    \/ GetStats

SpecStats == Init /\ [][NextStats]_vars

\* One thing at a time: a run or a removal is started only when no run and no
\* handler is in flight, as when the cron job and the admin never coincide.
Quiet == (\A r \in Runs : run[r].pc = "idle") /\ cb.pc = "idle" /\ adm.pc = "idle"

SpawnWhenQuiet(r) ==
    /\ Quiet
    /\ ops < MaxSerialOps
    /\ ops' = ops + 1
    /\ run' = [run EXCEPT ![r].pc = "readTokens"]
    /\ UNCHANGED <<now, latest, tokensFile, tokensTorn, statsFile, statsTorn, cb, adm, reply, call, lastLog, expiries, missing, session>>

AdminRemoveWhenQuiet(u) ==
    /\ Quiet
    /\ ops < MaxSerialOps
    /\ "tokens" \notin missing
    /\ ops' = ops + 1
    /\ IF u \in DOMAIN tokensFile
       THEN /\ adm' = [adm EXCEPT !.pc = "saveTokens", !.athleteId = u,
                                  !.tokens = DeleteKey(tokensFile, u)]
            /\ UNCHANGED reply
       ELSE /\ reply' = [route |-> "remove", status |-> 404, athleteId |-> u]
            /\ UNCHANGED adm
    /\ UNCHANGED <<now, latest, tokensFile, tokensTorn, statsFile, statsTorn, run, cb, call, lastLog, expiries, missing, session>>

NextSerial ==
    \/ Tick
    \/ \E r \in Runs : SpawnWhenQuiet(r)
    \/ \E r \in Runs : ReadTokens(r)
    \/ \E r \in Runs : RefreshToken(r)
    \/ \E r \in Runs : FetchPage(r)
    \/ \E r \in Runs : SaveTokensBegin(r)
    \/ \E r \in Runs : SaveTokensEnd(r)
    \/ \E r \in Runs : WriteStatsBegin(r)
    \/ \E r \in Runs : WriteStatsEnd(r)
    \/ \E u \in Users : AdminRemoveWhenQuiet(u)
    \/ AdminRemoveSaveBegin
    \/ AdminRemoveSaveEnd

SpecSerial == Init /\ [][NextSerial]_vars

\* ================================================================= claims
\* Vocabulary of the claims.
InFlight == {"refresh", "fetch", "saveTokens", "savingTokens", "writeStats", "writingStats"}

\* Run r has built the snapshot it writes.
Built(r) == run[r].pc \in {"writeStats", "writingStats"}

\* Run r's step from pc value p to another one.
Leaves(r, p) == run[r].pc = p /\ run'[r].pc # p

AthleteNames(athletes) == {athletes[i].name : i \in 1..Len(athletes)}

EntryOf(athletes, u) == athletes[CHOOSE i \in 1..Len(athletes) : athletes[i].name = u]

RECURSIVE SumDistance(_)
SumDistance(athletes) ==
    IF athletes = <<>> THEN 0 ELSE athletes[1].distance + SumDistance(Tail(athletes))

TypeKeys(athletes) == UNION {DOMAIN athletes[i].byType : i \in 1..Len(athletes)}

RECURSIVE TypeDistance(_, _)
TypeDistance(athletes, k) ==
    IF athletes = <<>> THEN 0
    ELSE (IF k \in DOMAIN athletes[1].byType THEN athletes[1].byType[k].distance ELSE 0)
         + TypeDistance(Tail(athletes), k)

RECURSIVE TypeCount(_, _)
TypeCount(athletes, k) ==
    IF athletes = <<>> THEN 0
    ELSE (IF k \in DOMAIN athletes[1].byType THEN athletes[1].byType[k].count ELSE 0)
         + TypeCount(Tail(athletes), k)

\* The kilometres of all of athlete u's activities, from the provider's data.
RECURSIVE MetresUpTo(_, _)
MetresUpTo(u, n) ==
    IF n = 0 THEN 0
    ELSE (IF "distance" \in DOMAIN ActivityAt(u, n) THEN ActivityAt(u, n).distance ELSE 0)
         + MetresUpTo(u, n - 1)

ExpectedKm(u) == MetresUpTo(u, NumActivities(u)) \div 1000

\* Athletes run r has refreshed the token of.
Refreshed(r) == run[r].posted \ run[r].refreshFailed

\* ------------------------------------------------------------------- C1
\* C1 (as claimed): at most one collection run is between its load of the
\* credential store and its final write of the stats file.
C1_AtMostOneActiveRun ==
    Cardinality({r \in Runs : run[r].pc \in InFlight}) <= 1

\* ------------------------------------------------------------------- C2
\* The snapshot of a run, whatever refreshes failed in it.
C2_Snapshot(r) ==
    LET st == run[r].stats
        present == DOMAIN run[r].loaded \ run[r].refreshFailed
    IN /\ AthleteNames(st.athletes) = present
       /\ Len(st.athletes) = Cardinality(present)
       /\ st.athleteCount = Cardinality(present)
       /\ st.totalDistance = SumDistance(st.athletes)
       /\ DOMAIN st.activityTypeBreakdown = TypeKeys(st.athletes)
       /\ \A k \in TypeKeys(st.athletes) :
            /\ st.activityTypeBreakdown[k].distance = TypeDistance(st.athletes, k)
            /\ st.activityTypeBreakdown[k].count = TypeCount(st.athletes, k)
       /\ \A u \in present \ run[r].fetchFailed :
            /\ EntryOf(st.athletes, u).distance = ExpectedKm(u)
            /\ EntryOf(st.athletes, u).activityCount = NumActivities(u)

\* The step in which a refresh throws: the run goes on with the next athlete,
\* or with saveTokens after the last one, and keeps what it has collected.
C2_FailureStep(r) ==
    (run[r].pc = "refresh" /\ run'[r].refreshFailed # run[r].refreshFailed) =>
        /\ run'[r].pc = (IF run[r].idx < Len(run[r].athleteIds) THEN "refresh" ELSE "saveTokens")
        /\ run'[r].idx = (IF run[r].idx < Len(run[r].athleteIds) THEN run[r].idx + 1 ELSE 0)
        /\ run'[r].athleteStats = run[r].athleteStats
        /\ run'[r].totalDistance = run[r].totalDistance
        /\ run'[r].activityTypeBreakdown = run[r].activityTypeBreakdown

\* C2: a failed refresh does not stop the run: it goes on to the next athlete
\* and to its writes; the snapshot it builds lists exactly the loaded athletes
\* whose refresh did not fail, each one fetched without error with the stats of
\* all its activities, and its total and type breakdown are the sums over the
\* athletes listed, so that a failed athlete adds nothing to them.
C2_RefreshFailureIsolated ==
    /\ [](\A r \in Runs : Built(r) => C2_Snapshot(r))
    /\ [][\A r \in Runs : C2_FailureStep(r)]_vars

\* A run with two athletes writes its snapshot, one refresh having failed and
\* the other athlete listed with a positive distance.
C2_Witness ==
    \E r \in Runs :
        /\ run[r].pc = "writingStats"
        /\ Cardinality(run[r].refreshFailed) = 1
        /\ Len(run[r].stats.athletes) = 1
        /\ run[r].stats.totalDistance > 0

\* ------------------------------------------------------------------- C3
\* C3 (as claimed): an athlete a page request failed for has no entry in the
\* snapshot of that run.
C3_FetchFailureGivesNoStats ==
    \A r \in Runs : Built(r) =>
        AthleteNames(run[r].stats.athletes) \cap run[r].fetchFailed = {}

\* ------------------------------------------------------------------- C4
\* C4: when the refresh request fails the call throws, and the athlete's record
\* is the one readTokens returned, in the run's memory for the rest of the run
\* and in the file once the run has written it.
C4_RefreshFailureLeavesRecord ==
    /\ [](\A r \in Runs : \A u \in run[r].refreshFailed :
            run[r].tokens[u] = run[r].loaded[u])
    /\ [][\A r \in Runs :
            /\ (Leaves(r, "refresh") /\ run'[r].posted # run[r].posted /\ latest' = latest)
                  => /\ CurrentAthlete(r) \in run'[r].refreshFailed
                     /\ run'[r].pc # "fetch"
                     /\ run'[r].tokens = run[r].tokens
            /\ Leaves(r, "savingTokens")
                  => \A u \in run[r].refreshFailed : tokensFile'[u] = run[r].loaded[u]]_vars

\* A run has written the credential file after a refresh failed for an athlete
\* whose token had expired.
C4_Witness ==
    \E r \in Runs : \E u \in run[r].refreshFailed :
        /\ run[r].pc = "writeStats"
        /\ run[r].loaded[u].expiresAt <= now
        /\ ~tokensTorn
        /\ tokensFile[u] = run[r].loaded[u]

\* ------------------------------------------------------------------- C5
\* C5: when the refresh of an expired token succeeds, the record takes the
\* access token, refresh token and expiry the provider has just issued, the
\* fetch is made with that access token, and the run's write puts that record
\* in the file: the refresh token that was loaded is no longer in it.
C5_RefreshSuccessReplacesTokens ==
    /\ [](\A r \in Runs :
            /\ run[r].pc = "fetch" =>
                  run[r].accessToken = run[r].tokens[CurrentAthlete(r)].accessToken
            /\ \A u \in Refreshed(r) :
                  /\ run[r].tokens[u].accessToken # run[r].loaded[u].accessToken
                  /\ run[r].tokens[u].refreshToken # run[r].loaded[u].refreshToken
                  /\ run[r].tokens[u].expiresAt > run[r].loaded[u].expiresAt)
    /\ [][\A r \in Runs :
            /\ (Leaves(r, "refresh") /\ latest' # latest)
                  => LET u == CurrentAthlete(r)
                     IN /\ run[r].tokens[u].expiresAt <= now
                        /\ run'[r].pc = "fetch"
                        /\ run'[r].accessToken = latest'[u]
                        /\ run'[r].tokens[u] =
                             [run[r].tokens[u] EXCEPT !.accessToken = latest'[u],
                                                      !.refreshToken = latest'[u],
                                                      !.expiresAt = now + TokenTTL]
            /\ Leaves(r, "savingTokens")
                  => \A u \in Refreshed(r) :
                        /\ tokensFile'[u] = run[r].tokens[u]
                        /\ tokensFile'[u].refreshToken # run[r].loaded[u].refreshToken]_vars

\* A run has written the credential file after refreshing an athlete's token.
C5_Witness ==
    \E r \in Runs : \E u \in Refreshed(r) :
        /\ run[r].pc = "writeStats"
        /\ ~tokensTorn
        /\ tokensFile[u].refreshToken = run[r].loaded[u].refreshToken + 1
        /\ tokensFile[u].accessToken = run[r].loaded[u].accessToken + 1
        /\ tokensFile[u].expiresAt > run[r].loaded[u].expiresAt

\* ------------------------------------------------------------------- C6
\* C6: with expiresAt > now the call returns the record's access token, asks
\* the provider nothing and leaves the record as it is; a refresh request is
\* issued only for a record with expiresAt <= now.
C6_ValidTokenNotRefreshed ==
    [][\A r \in Runs : Leaves(r, "refresh") =>
          LET u == CurrentAthlete(r)
              athleteData == run[r].tokens[u]
          IN /\ athleteData.expiresAt > now =>
                  /\ run'[r].pc = "fetch"
                  /\ run'[r].accessToken = athleteData.accessToken
                  /\ run'[r].tokens = run[r].tokens
                  /\ run'[r].posted = run[r].posted
                  /\ latest' = latest
             /\ run'[r].posted # run[r].posted => athleteData.expiresAt <= now]_vars

\* A run fetches with the stored access token of a record that has not expired.
C6_Witness ==
    \E r \in Runs :
        /\ run[r].pc = "fetch"
        /\ CurrentAthlete(r) \notin run[r].posted
        /\ run[r].tokens[CurrentAthlete(r)].expiresAt > now
        /\ run[r].accessToken = run[r].loaded[CurrentAthlete(r)].accessToken

\* ------------------------------------------------------------------- C7
\* C7 (as claimed): a run's write of the credential file never puts an older
\* refresh token of an athlete in the place of a newer one.
C7_NoStaleTokenWrittenBack ==
    [][\A r \in Runs : Leaves(r, "savingTokens") =>
          \A u \in DOMAIN tokensFile \cap DOMAIN tokensFile' :
              tokensFile'[u].refreshToken >= tokensFile[u].refreshToken]_vars

\* ------------------------------------------------------------------- C8
\* C8 (as claimed): a record leaves the credential file only in the step that
\* completes the admin removal of that athlete.
C8_DeletedOnlyByAdminRemoval ==
    [][\A u \in DOMAIN tokensFile : u \notin DOMAIN tokensFile' =>
          (adm.pc = "savingTokens" /\ adm.athleteId = u /\ adm'.pc = "idle")]_vars

\* ------------------------------------------------------------------- C9
\* C9 (as claimed): no admin removal takes effect between a run's load and its
\* credential write, so that the write of a run never brings back an athlete
\* that has left the file since the run loaded it.
C9_RemovedUserNotPutBack ==
    [][\A r \in Runs : Leaves(r, "savingTokens") =>
          DOMAIN tokensFile' \subseteq DOMAIN tokensFile]_vars

\* ------------------------------------------------------------------ C10
\* C10 (as claimed): whoever reads the credential file (a run, the OAuth
\* callback) finds a complete set in it, never a file that is being written.
C10_ReadersSeeCompleteFile ==
    [][((\E r \in Runs : Leaves(r, "readTokens"))
          \/ (cb.pc = "readTokens" /\ cb'.pc # "readTokens")) => ~tokensTorn]_vars

\* ------------------------------------------------------------------ C11
\* C11 (as claimed): a read of stats.json by GET /api/stats, also one that
\* falls into a run's write of the file, answers with a complete snapshot, the
\* one before the write or the one after it.
C11_StatsReadSeesCompleteSnapshot ==
    reply.route = "stats" => reply.status = 200

\* The snapshot with no athlete in it.
EmptySnapshot(st) ==
    /\ "athleteCount" \in DOMAIN st
    /\ st.totalDistance = 0
    /\ st.athletes = <<>>
    /\ st.athleteCount = 0

\* Every athlete run r loaded has failed, at the refresh or at a page request.
AllFailed(r) ==
    /\ DOMAIN run[r].loaded # {}
    /\ DOMAIN run[r].loaded \subseteq run[r].refreshFailed \cup run[r].fetchFailed

\* ------------------------------------------------------------------ C12
\* C12 (as claimed): when a run finds the credential store empty, stats.json
\* holds, once the run has ended, a snapshot with totalDistance = 0,
\* athletes = [] and athleteCount = 0.
C12_EmptyStoreGivesEmptySnapshot ==
    [][\A r \in Runs :
          (Leaves(r, "readTokens") /\ ~tokensTorn /\ DOMAIN tokensFile = {})
              => (run'[r].pc = "idle" /\ EmptySnapshot(statsFile'))]_vars

\* ------------------------------------------------------------------ C13
\* C13 (as claimed): a run that loaded at least one athlete and in which every
\* athlete failed has, after its write of the credential file, built a
\* snapshot with athletes = [], athleteCount = 0 and totalDistance = 0.
C13_AllFailGivesEmptySnapshot ==
    \A r \in Runs : (Built(r) /\ AllFailed(r)) => EmptySnapshot(run[r].stats)

\* ------------------------------------------------------------------ C14
\* C14 (as claimed): when a run has completed - with its write of stats.json,
\* or at once because it found the store empty - every athlete in stats.json
\* is one the run found in the store when it loaded it, and the total is the
\* sum over these athletes: nothing of an earlier run is left in the file.
C14_SnapshotOfTheStoreLoaded ==
    [][\A r \in Runs :
          /\ Leaves(r, "writingStats") =>
                /\ AthleteNames(statsFile'.athletes) \subseteq DOMAIN run[r].loaded
                /\ statsFile'.totalDistance = SumDistance(statsFile'.athletes)
          /\ (Leaves(r, "readTokens") /\ ~tokensTorn /\ run'[r].pc = "idle") =>
                /\ AthleteNames(statsFile'.athletes) \subseteq DOMAIN tokensFile
                /\ statsFile'.totalDistance = SumDistance(statsFile'.athletes)]_vars

\* ------------------------------------------------------------------ C15
\* C15: when readTokens fails - the file does not parse - the run ends in that
\* very step, in the outer catch: the process is gone with no athlete
\* processed and no request issued, the provider has been asked nothing, and
\* neither athlete_tokens.json nor stats.json has been touched.
C15_UnreadableStoreAbortsRun ==
    [][\A r \in Runs : (Leaves(r, "readTokens") /\ tokensTorn) =>
          /\ run'[r] = IdleRun
          /\ lastLog' = "Error in data collection:"
          /\ UNCHANGED <<latest, tokensFile, tokensTorn, statsFile, statsTorn>>]_vars

\* A run has just ended on an unreadable credential file: the write that made
\* it unreadable is still under way, and stats.json is the initial one.
C15_Witness ==
    /\ lastLog = "Error in data collection:"
    /\ tokensTorn
    /\ \A r \in Runs : run[r] = IdleRun
    /\ DOMAIN tokensFile # {}
    /\ statsFile = BaselineStats

\* ------------------------------------------------------------------ C16
\* The step in which the server takes a DELETE /api/athletes/:athleteId up to
\* its 404 test, and the athlete the request names.
RemovalReceived == adm.pc = "idle" /\ ops' = ops + 1 /\ run' = run /\ cb' = cb

RemovalTarget == IF adm'.pc = "saveTokens" THEN adm'.athleteId ELSE reply'.athleteId

CeilDiv(a, b) == (a + b - 1) \div b

\* The pages of `all` up to page k, one after the other.
RECURSIVE PagesUpTo(_, _)
PagesUpTo(all, k) == IF k = 0 THEN <<>> ELSE PagesUpTo(all, k - 1) \o PageOf(all, k)

\* C17: fetchActivities asks for at most ceil(n / perPage) + 1 pages of an
\* athlete's n activities, each request being one turn of the loop, so the loop
\* ends; it goes on only after a full page and returns at the first page that
\* is empty or short; with n = perPage it asks for pages 1 and 2 and returns
\* all perPage records.
C17_FetchTerminates ==
    call.fn = "fetchActivities" =>
        LET n == Len(call.activities)
            k == Len(call.requests)
        IN /\ k <= CeilDiv(n, perPage) + 1
           /\ ~call.done => /\ k < CeilDiv(n, perPage) + 1
                            /\ \A i \in 1..k : Len(PageOf(call.activities, i)) = perPage
           /\ (call.done /\ ~call.failed) =>
                 /\ k >= 1
                 /\ Len(PageOf(call.activities, k)) < perPage
                 /\ \A i \in 1..(k - 1) : Len(PageOf(call.activities, i)) = perPage
           /\ (call.done /\ ~call.failed /\ n = perPage) =>
                 /\ call.requests = <<1, 2>>
                 /\ call.allActivities = call.activities
                 /\ Len(call.allActivities) = perPage

\* The call has returned a full first page after asking for pages 1 and 2.
C17_Witness ==
    /\ call.fn = "fetchActivities"
    /\ call.done /\ ~call.failed
    /\ Len(call.activities) = perPage
    /\ Len(PageOf(call.activities, 1)) = perPage
    /\ PageOf(call.activities, 2) = <<>>
    /\ call.requests = <<1, 2>>
    /\ call.allActivities = call.activities

\* ------------------------------------------------------------------ C18
\* C18: the pages are asked for in the order 1, 2, 3, ..., none left out and
\* none twice; as long as no request has failed what is accumulated is the
\* requested pages one after the other, and what is returned is the athlete's
\* list of activities, each activity once and in the provider's order.
C18_FetchReturnsAllPagesInOrder ==
    call.fn = "fetchActivities" =>
        LET k == Len(call.requests)
        IN /\ call.requests = [i \in 1..k |-> i]
           /\ ~call.done => call.page = k + 1
           /\ ~call.failed => call.allActivities = PagesUpTo(call.activities, k)
           /\ (call.done /\ ~call.failed) => call.allActivities = call.activities

\* The call has returned the activities of three pages.
C18_Witness ==
    /\ call.fn = "fetchActivities"
    /\ call.done /\ ~call.failed
    /\ call.requests = <<1, 2, 3>>
    /\ Len(call.activities) > 2 * perPage
    /\ call.allActivities = call.activities

\* ------------------------------------------------------------------ C19
\* The list is in descending order of distance, and of two entries with the
\* same distance the one whose athlete comes first in `iteration` is first.
SortedStable(athletes, iteration) ==
    \A i, j \in 1..Len(athletes) : i < j =>
        \/ athletes[i].distance > athletes[j].distance
        \/ /\ athletes[i].distance = athletes[j].distance
           /\ \E a, b \in 1..Len(iteration) :
                 /\ a < b
                 /\ iteration[a] = athletes[i].name
                 /\ iteration[b] = athletes[j].name

\* C19: the athletes list of the snapshot written is in descending order of
\* distance, athletes with the same distance in the order in which the loop
\* went through them; it has the entries the loop pushed, each once.  The same
\* goes for the snapshot of the other order of processing.
C19_AthletesSortedStable ==
    (call.fn = "collectData" /\ call.done) =>
        LET n == Len(call.activities)
        IN /\ SortedStable(statsFile.athletes, [i \in 1..n |-> i])
           /\ SortedStable(call.permutedStats.athletes, call.order)
           /\ Len(statsFile.athletes) = n
           /\ \A i \in 1..n : \E k \in 1..n : statsFile.athletes[k] = call.inOrder.athleteStats[i]
           /\ Len(call.permutedStats.athletes) = n
           /\ \A i \in 1..n : \E k \in 1..n :
                 call.permutedStats.athletes[k] = call.permuted.athleteStats[i]

\* The snapshot written lists athlete 3 before athletes 1 and 2, who have the
\* same distance and keep their order.
C19_Witness ==
    /\ call.fn = "collectData" /\ call.done
    /\ Len(statsFile.athletes) = 3
    /\ statsFile.athletes[1].name = 3
    /\ statsFile.athletes[2].name = 1
    /\ statsFile.athletes[3].name = 2
    /\ statsFile.athletes[2].distance = statsFile.athletes[3].distance
    /\ statsFile.athletes[3].distance > 0

\* ------------------------------------------------------------------ C20
Abs(x) == IF x < 0 THEN 0 - x ELSE x

\* x and y are two sums of the same n numbers >= 0, of real sum s, each made
\* with n - 1 rounded additions: with u = 2^-Precision either lies between
\* s * (1 - u)^(n-1) and s * (1 + u)^(n-1).
WithinRounding(x, y, s, n) ==
    IF n = 0 THEN x = y
    ELSE Abs(x - y) * Pow(Pow(2, Precision), n - 1)
            <= s * (Pow(Pow(2, Precision) + 1, n - 1) - Pow(Pow(2, Precision) - 1, n - 1))

\* C20 (as claimed): the snapshot of the athletes processed in another order
\* has the same total distance and, for every type, the same distance and
\* count as the snapshot of the athletes processed in the order of the store.
C20_CombineOrderIndependent ==
    (call.fn = "collectData" /\ call.done) =>
        /\ call.permutedStats.totalDistance = statsFile.totalDistance
        /\ call.permutedStats.activityTypeBreakdown = statsFile.activityTypeBreakdown

\* C20 (amended): the two snapshots have the same athletes with the same
\* figures, the same athleteCount, the same types and the same count for every
\* type; their total distances, and their distances for every type, are sums
\* of the same numbers and differ by no more than the rounding of the
\* additions allows.
C20_CombineOrderIndependentUpToRounding ==
    (call.fn = "collectData" /\ call.done) =>
        LET n == Len(call.activities)
            a == statsFile
            b == call.permutedStats
        IN /\ b.athleteCount = a.athleteCount
           /\ \A i \in 1..n : EntryOf(b.athletes, i) = EntryOf(a.athletes, i)
           /\ DOMAIN b.activityTypeBreakdown = DOMAIN a.activityTypeBreakdown
           /\ DOMAIN a.activityTypeBreakdown = TypeKeys(a.athletes)
           /\ \A k \in DOMAIN a.activityTypeBreakdown :
                 /\ b.activityTypeBreakdown[k].count = a.activityTypeBreakdown[k].count
                 /\ a.activityTypeBreakdown[k].count = TypeCount(a.athletes, k)
                 /\ WithinRounding(a.activityTypeBreakdown[k].distance,
                                   b.activityTypeBreakdown[k].distance,
                                   TypeDistance(a.athletes, k), n)
           /\ WithinRounding(a.totalDistance, b.totalDistance, SumDistance(a.athletes), n)

\* Three athletes have been processed in two orders and the two total
\* distances are not the same number.
C20_Witness ==
    /\ call.fn = "collectData" /\ call.done
    /\ Len(call.activities) = 3
    /\ call.order # <<1, 2, 3>>
    /\ call.permutedStats.totalDistance # statsFile.totalDistance
    /\ call.permutedStats.athleteCount = 3

\* ------------------------------------------------------------------ C21
\* The kilometres and the type key of an activity, as the claim has them.
KmOf(activity) == IF "distance" \in DOMAIN activity THEN activity.distance \div 1000 ELSE 0

TypeOf(activity) ==
    IF "type" \in DOMAIN activity /\ activity.type # "" THEN activity.type ELSE "Other"

\* The activities of the list that have the type key k, in the list's order.
RECURSIVE OfType(_, _)
OfType(activities, k) ==
    IF activities = <<>> THEN <<>>
    ELSE (IF TypeOf(activities[1]) = k THEN <<activities[1]>> ELSE <<>>)
         \o OfType(Tail(activities), k)

\* The kilometres of a list added up exactly, and added up as numbers from
\* the first activity to the last.
RECURSIVE SumKm(_)
SumKm(activities) ==
    IF activities = <<>> THEN 0 ELSE KmOf(activities[1]) + SumKm(Tail(activities))

RECURSIVE NumberSumKm(_)
NumberSumKm(activities) ==
    IF activities = <<>> THEN 0
    ELSE NumberAdd(NumberSumKm(SubSeq(activities, 1, Len(activities) - 1)),
                   KmOf(activities[Len(activities)]))

\* x is a sum of n numbers >= 0 of real sum s made with rounded additions:
\* with u = 2^-Precision it is no further from s than s * ((1 + u)^n - 1).
NearSum(x, s, n) ==
    Abs(x - s) * Pow(Pow(2, Precision), n)
        <= s * (Pow(Pow(2, Precision) + 1, n) - Pow(Pow(2, Precision), n))

\* C21: after any number of activities of any list, total is the sum of their
\* distances in kilometres - the sum as numbers, which is the real sum up to
\* the rounding of the additions and the real sum itself where no addition
\* rounds -; byType has exactly the type keys of the activities, "Other" for
\* an unset or empty type, keys that differ in case being different keys; and
\* for every key the count is the number of activities of that type and the
\* distance the sum of their kilometres; an activity without distance counts
\* and adds 0.
C21_BreakdownSumsAndGroups ==
    call.fn = "calculateDistanceBreakdown" =>
        LET seen == SubSeq(call.activities, 1, call.idx)
            b == call.breakdown
        IN /\ b.total = NumberSumKm(seen)
           /\ NearSum(b.total, SumKm(seen), Len(seen))
           /\ SumKm(seen) < Pow(2, Precision) => b.total = SumKm(seen)
           /\ DOMAIN b.byType = {TypeOf(seen[i]) : i \in 1..Len(seen)}
           /\ \A k \in DOMAIN b.byType :
                 /\ b.byType[k].count = Len(OfType(seen, k))
                 /\ b.byType[k].distance = NumberSumKm(OfType(seen, k))
                 /\ NearSum(b.byType[k].distance, SumKm(OfType(seen, k)), Len(seen))

\* A list with an activity without type, one without distance and two whose
\* types differ in case only has gone through: "Other", "Run" and "run" are
\* three keys, and the activity without distance is counted under its type.
C21_Witness ==
    /\ call.fn = "calculateDistanceBreakdown"
    /\ call.idx = Len(call.activities)
    /\ {"Other", "Run", "run", "Ride"} \subseteq DOMAIN call.breakdown.byType
    /\ call.breakdown.byType["Ride"] = [distance |-> 0, count |-> 1]
    /\ call.breakdown.byType["Other"] = [distance |-> 4, count |-> 1]
    /\ call.breakdown.total = 11

\* ------------------------------------------------------------------ C22
\* The athletes run r has processed without error.
Successful(r) == DOMAIN run[r].loaded \ (run[r].refreshFailed \cup run[r].fetchFailed)

\* From the provider's data: the type keys of athlete u's activities, and the
\* kilometres and the number of those of its first n activities with key k.
ExpectedTypes(u) == {TypeOf(ActivityAt(u, i)) : i \in 1..NumActivities(u)}

RECURSIVE ExpectedTypeKm(_, _, _)
ExpectedTypeKm(u, k, n) ==
    IF n = 0 THEN 0
    ELSE (IF TypeOf(ActivityAt(u, n)) = k THEN KmOf(ActivityAt(u, n)) ELSE 0)
         + ExpectedTypeKm(u, k, n - 1)

RECURSIVE ExpectedTypeCount(_, _, _)
ExpectedTypeCount(u, k, n) ==
    IF n = 0 THEN 0
    ELSE (IF TypeOf(ActivityAt(u, n)) = k THEN 1 ELSE 0) + ExpectedTypeCount(u, k, n - 1)

\* The sums of these figures over the athletes of S.
RECURSIVE TotalTypeKm(_, _)
TotalTypeKm(S, k) ==
    IF S = {} THEN 0
    ELSE LET u == CHOOSE x \in S : TRUE
         IN ExpectedTypeKm(u, k, NumActivities(u)) + TotalTypeKm(S \ {u}, k)

RECURSIVE TotalTypeCount(_, _)
TotalTypeCount(S, k) ==
    IF S = {} THEN 0
    ELSE LET u == CHOOSE x \in S : TRUE
         IN ExpectedTypeCount(u, k, NumActivities(u)) + TotalTypeCount(S \ {u}, k)

RECURSIVE TotalKm(_)
TotalKm(S) ==
    IF S = {} THEN 0
    ELSE LET u == CHOOSE x \in S : TRUE IN ExpectedKm(u) + TotalKm(S \ {u})

\* C22: in the snapshot a run has built and writes, the type breakdown has
\* exactly the types that some athlete processed without error has, with the
\* sum of these athletes' kilometres and the sum of their activity counts of
\* that type, and the total distance is the sum of their kilometres.
C22_GlobalBreakdownSumsSuccessfulUsers ==
    \A r \in Runs : Built(r) =>
        LET st == run[r].stats
        IN /\ DOMAIN st.activityTypeBreakdown = UNION {ExpectedTypes(u) : u \in Successful(r)}
           /\ \A k \in DOMAIN st.activityTypeBreakdown :
                 /\ st.activityTypeBreakdown[k].distance = TotalTypeKm(Successful(r), k)
                 /\ st.activityTypeBreakdown[k].count = TotalTypeCount(Successful(r), k)
           /\ st.totalDistance = TotalKm(Successful(r))

\* The scenario of the claim with the provider's data of the model: athlete 1
\* with 8 km in a Run and a Ride and athlete 2 with 3 km in a Ride give the
\* total 11, {Run: 5/1, Ride: 6/2} and the order [1, 2].
C22_Witness ==
    \E r \in Runs :
        /\ run[r].pc = "writingStats"
        /\ Successful(r) = {1, 2}
        /\ run[r].stats.totalDistance = 11
        /\ run[r].stats.activityTypeBreakdown =
              [k \in {"Run", "Ride"} |->
                  IF k = "Run" THEN [distance |-> 5, count |-> 1]
                  ELSE [distance |-> 6, count |-> 2]]
        /\ run[r].stats.athletes[1].name = 1
        /\ run[r].stats.athletes[2].name = 2

\* ------------------------------------------------------------------ C23
\* Both calls of refreshAccessToken have been made.
CalledTwice == call.fn = "refreshAccessToken" /\ Len(call.results) = 2

\* C23 (as claimed): two calls in immediate succession on the same record
\* issue at most one refresh request between them and return the same
\* access token.
C23_EnsureValidIdempotent ==
    CalledTwice =>
        /\ call.requests <= 1
        /\ (~call.results[1].threw /\ ~call.results[2].threw)
              => call.results[2].accessToken = call.results[1].accessToken

\* C23 (amended): when the first call returns, the second returns the same
\* access token and issues no request, so that the two issue at most one -
\* none for a record that had not expired, one for a record that had; when
\* the request of the first call fails, the call throws and leaves the record
\* as it was, and the second call issues the request again.
C23_EnsureValidIdempotentOnceReturned ==
    /\ (call.fn = "refreshAccessToken" /\ Len(call.results) = 1) =>
          IF call.results[1].threw
          THEN call.athleteData = call.given /\ call.given.expiresAt <= now
          ELSE /\ call.results[1].accessToken = call.athleteData.accessToken
               /\ call.athleteData.expiresAt > now
    /\ CalledTwice =>
          IF call.results[1].threw
          THEN call.requests = 2
          ELSE /\ ~call.results[2].threw
               /\ call.results[2].accessToken = call.results[1].accessToken
               /\ call.requests = (IF call.given.expiresAt > now THEN 0 ELSE 1)

\* The record had expired, the first call has refreshed it and the second has
\* returned the new access token without a request.
C23_Witness ==
    /\ CalledTwice
    /\ call.given.expiresAt <= now
    /\ call.requests = 1
    /\ ~call.results[1].threw /\ ~call.results[2].threw
    /\ call.results[1].accessToken = call.given.accessToken + 1
    /\ call.results[2].accessToken = call.results[1].accessToken

\* ------------------------------------------------------------------ C24
\* C24: what readTokens returns after saveTokens(tokens), no write in between,
\* is a mapping with the keys of tokens and, under every key, a record with
\* the same fields and the same values; the file written at initialization
\* reads back as the empty mapping.
C24_StoreRoundTrip ==
    call.fn = "saveTokens" =>
        /\ JSONParse(JSONStringify(EmptyObject)) = EmptyObject
        /\ call.pc = "done" =>
              /\ DOMAIN call.read = DOMAIN call.tokens
              /\ \A u \in DOMAIN call.tokens :
                    /\ DOMAIN call.read[u] = DOMAIN call.tokens[u]
                    /\ \A f \in DOMAIN call.tokens[u] : call.read[u][f] = call.tokens[u][f]
              /\ call.read = call.tokens

\* Three records, one under a key of two digits, with numbers of one, two and
\* three digits in them, have been written and read back.
C24_Witness ==
    /\ call.fn = "saveTokens"
    /\ call.pc = "done"
    /\ DOMAIN call.read = StoreAthletes
    /\ call.read[10].expiresAt = 209
    /\ call.read[2].expiresAt = 10
    /\ call.read[1].connectedAt = 10
    /\ call.read[1].expiresAt = 0
    /\ Len(call.file) > Len(JSONStringify(EmptyObject))

\* ------------------------------------------------------------------ C25
\* The activities of the list that started on one of the days.
OnDays(activities, days) == SelectSeq(activities, LAMBDA a : DayOf(a.start_date) \in days)

\* C25 (as claimed): every activity that started on the first or on the last
\* day of the tracking period, at whatever time of that day, is among the
\* activities returned and is counted in the breakdown.
C25_WindowInclusiveBothEnds ==
    (call.fn = "fetchActivities in the tracking period" /\ call.done) =>
        /\ OnDays(call.allActivities, {START_DATE, END_DATE})
              = OnDays(call.activities, {START_DATE, END_DATE})
        /\ call.breakdown.total >= 5 * Len(OnDays(call.activities, {START_DATE, END_DATE}))

\* ------------------------------------------------------------------ C26
\* C26 (as claimed): the connectedAt of a record that is in the credential
\* file stays what it is, whatever is written to the file: by a run, or by
\* the callback when the athlete authorizes again.
C26_ConnectedAtNeverChanges ==
    [][\A u \in DOMAIN tokensFile \cap DOMAIN tokensFile' :
          tokensFile'[u].connectedAt = tokensFile[u].connectedAt]_vars

\* ------------------------------------------------------------------ C27
\* C27 (as claimed): initializeFiles goes on to write a file exactly when its
\* test finds that the file does not exist, and when it begins to write - the
\* step that creates or empties the file - the file still does not exist,
\* whatever a run or a callback has written in the meantime: a file that is
\* there is never overwritten.
C27_InitializationNeverOverwrites ==
    [][call.fn = "initializeFiles" =>
          /\ (call.pc = "accessTokens" /\ call'.pc # call.pc)
                => (call'.pc = "writeTokens" <=> "tokens" \in missing)
          /\ (call.pc = "accessStats" /\ call'.pc # call.pc)
                => (call'.pc = "writeStats" <=> "stats" \in missing)
          /\ (call.pc = "writeTokens" /\ call'.pc # call.pc) => "tokens" \in missing
          /\ (call.pc = "writeStats" /\ call'.pc # call.pc) => "stats" \in missing]_vars

\* ------------------------------------------------------------------ C28
\* The places a run can go to from the place it is at.
RunSuccessors(pc) ==
    CASE pc = "idle"         -> {"readTokens"}
      [] pc = "readTokens"   -> {"refresh", "idle"}
      [] pc = "refresh"      -> {"refresh", "fetch", "saveTokens"}
      [] pc = "fetch"        -> {"refresh", "fetch", "saveTokens"}
      [] pc = "saveTokens"   -> {"savingTokens"}
      [] pc = "savingTokens" -> {"writeStats"}
      [] pc = "writeStats"   -> {"writingStats"}
      [] pc = "writingStats" -> {"idle"}

\* Every athlete run r loaded has finished, with an entry pushed or with a
\* refresh that threw, and none twice.
AllFinished(r) ==
    /\ AthleteNames(run[r].athleteStats) \cup run[r].refreshFailed = DOMAIN run[r].loaded
    /\ Len(run[r].athleteStats) + Cardinality(run[r].refreshFailed)
          = Cardinality(DOMAIN run[r].loaded)

Passed(r) == {run[r].athleteIds[i] : i \in 1..(run[r].idx - 1)}

IssuedTogether(u, athleteData) ==
    /\ athleteData.accessToken \in 1..Len(expiries[u])
    /\ athleteData.expiresAt = expiries[u][athleteData.accessToken]

C30_TokenAndExpiryFromOneResponse ==
    ~tokensTorn =>
        \A u \in DOMAIN tokensFile : IssuedTogether(u, tokensFile[u])

\* The store holds a record whose pair is not the first one issued, and the
\* provider gave the two pairs different expiries.
C30_Witness ==
    /\ ~tokensTorn
    /\ \E u \in DOMAIN tokensFile :
         /\ tokensFile[u].accessToken = 2
         /\ expiries[u][2] # expiries[u][1]
         /\ tokensFile[u].expiresAt = expiries[u][2]

\* ---------------------------------------------------------------------------
\* C31.  A run never retries.  Every step of a run that asks the provider for
\* something (the refresh of the current athlete, a page of their activities)
\* is for an athlete the run has not refreshed, failed or recorded before; a
\* page request is followed either by the request for the next page of the same
\* athlete or by the next athlete (or the end of the loop), never by the same
\* page again; and an athlete whose refresh or fetch failed is behind the run's
\* position for the rest of the run.
Attempted(r) ==
    run[r].posted \cup run[r].refreshFailed \cup run[r].fetchFailed
        \cup AthleteNames(run[r].athleteStats)

C31_NoRetryWithinRun ==
    [][\A r \in Runs : run'[r] # run[r] =>
          /\ run[r].pc = "refresh" => CurrentAthlete(r) \notin Attempted(r)
          /\ run[r].pc = "fetch" =>
               /\ CurrentAthlete(r) \notin run[r].refreshFailed \cup run[r].fetchFailed
                                           \cup AthleteNames(run[r].athleteStats)
               /\ \/ /\ run'[r].pc = "fetch"
                     /\ run'[r].idx = run[r].idx
                     /\ run'[r].page = run[r].page + 1
                  \/ /\ run'[r].pc = "refresh"
                     /\ run'[r].idx = run[r].idx + 1
                  \/ /\ run'[r].pc = "saveTokens"
                     /\ run[r].idx = Len(run[r].athleteIds)
          /\ run'[r].pc \in {"refresh", "fetch"} =>
               \A u \in run'[r].refreshFailed \cup run'[r].fetchFailed :
                   \E i \in 1..(run'[r].idx - 1) : run'[r].athleteIds[i] = u]_vars

\* A run is asking for the activities of its second athlete after a request
\* for the activities of the first has failed.
C31_Witness ==
    \E r \in Runs :
        /\ run[r].pc = "fetch"
        /\ run[r].idx = 2
        /\ run[r].athleteIds[1] \in run[r].fetchFailed

\* ---------------------------------------------------------------------------
\* C32.  The distances of the entries of a list, added as numbers in the
\* list's order, and the activities an entry's byType counts.
RECURSIVE NumberSumDistance(_)
NumberSumDistance(athletes) ==
    IF athletes = <<>> THEN 0
    ELSE NumberAdd(NumberSumDistance(SubSeq(athletes, 1, Len(athletes) - 1)),
                   athletes[Len(athletes)].distance)

RECURSIVE CountSum(_)
CountSum(byType) ==
    IF DOMAIN byType = {} THEN 0
    ELSE LET k == CHOOSE t \in DOMAIN byType : TRUE
         IN byType[k].count + CountSum([t \in DOMAIN byType \ {k} |-> byType[t]])

\* What the claim's other parts say of a snapshot: athleteCount is the length
\* of athletes, every athlete's activityCount is the sum of the counts of its
\* byType, and no distance or count is negative.
CountsConsistent(stats) ==
    /\ stats.athleteCount = Len(stats.athletes)
    /\ stats.totalDistance >= 0
    /\ \A i \in 1..Len(stats.athletes) :
         LET a == stats.athletes[i]
         IN /\ a.activityCount = CountSum(a.byType)
            /\ a.distance >= 0
            /\ a.activityCount >= 0
            /\ \A k \in DOMAIN a.byType : a.byType[k].distance >= 0 /\ a.byType[k].count >= 0
    /\ \A k \in DOMAIN stats.activityTypeBreakdown :
         /\ stats.activityTypeBreakdown[k].distance >= 0
         /\ stats.activityTypeBreakdown[k].count >= 0

\* C32 (as claimed): in the snapshot a run has written, totalDistance is the
\* sum of the distances of the athletes listed, and the counts are consistent.
C32_SnapshotConsistent ==
    (call.fn = "collectData" /\ call.done) =>
        /\ CountsConsistent(statsFile)
        /\ statsFile.totalDistance = SumDistance(statsFile.athletes)

\* C32 (amended): in the snapshot a run has written, the counts are
\* consistent, and totalDistance is the result of adding the athletes'
\* distances as numbers in the order the run processed them: it is the sum of
\* the distances listed up to the rounding of that many additions, and the
\* sum itself where no addition rounds.
C32_SnapshotConsistentUpToRounding ==
    (call.fn = "collectData" /\ call.done) =>
        /\ CountsConsistent(statsFile)
        /\ statsFile.totalDistance = NumberSumDistance(call.inOrder.athleteStats)
        /\ NearSum(statsFile.totalDistance, SumDistance(statsFile.athletes),
                   Len(statsFile.athletes))
        /\ SumDistance(statsFile.athletes) < Pow(2, Precision) =>
               statsFile.totalDistance = SumDistance(statsFile.athletes)

\* A snapshot of three athletes, one of them with several activities, has been
\* written whose totalDistance is not the sum of the distances listed.
C32_Witness ==
    /\ call.fn = "collectData" /\ call.done
    /\ statsFile.athleteCount = 3
    /\ statsFile.totalDistance # SumDistance(statsFile.athletes)
    /\ \E i \in 1..3 : statsFile.athletes[i].activityCount > 1

\* ---------------------------------------------------------------------------
\* C33.  A run that reads a store without athletes ends with that read: the
\* step takes it back to idle with "No athletes connected yet." and changes
\* neither athlete_tokens.json nor stats.json; and a run is in its loop or at
\* one of its writes only with a store of at least one athlete loaded.
Writing(r) == run[r].pc \in {"refresh", "fetch", "saveTokens", "savingTokens",
                             "writeStats", "writingStats"}

C33_EmptyStoreRunWritesNothing ==
    /\ [](\A r \in Runs : Writing(r) => DOMAIN run[r].loaded # {})
    /\ [][\A r \in Runs :
            (/\ run[r].pc = "readTokens"
             /\ run'[r] # run[r]
             /\ ~tokensTorn /\ "tokens" \notin missing
             /\ DOMAIN tokensFile = {}) =>
                /\ run'[r] = IdleRun
                /\ lastLog' = "No athletes connected yet."
                /\ UNCHANGED <<tokensFile, tokensTorn, statsFile, statsTorn, missing>>]_vars

\* A run has found the store empty after an earlier run had written a
\* snapshot with an athlete in it: the snapshot is still there.
C33_Witness ==
    /\ lastLog = "No athletes connected yet."
    /\ \A r \in Runs : run[r].pc = "idle"
    /\ DOMAIN tokensFile = {}
    /\ Len(statsFile.athletes) > 0

\* ---------------------------------------------------------------------------
\* C34.  In a run the write of athlete_tokens.json comes before the write of
\* stats.json: a run reaches the stats write only by the step that completes
\* its write of the store, and stats.json changes only in the steps of a run
\* that is at its stats write.  A saveTokens that fails ends the run there: the
\* run is back at idle with "Error in data collection:" logged by its own
\* catch, and the step leaves stats.json as it was.
AtTokensWrite(r) == run[r].pc \in {"saveTokens", "savingTokens"}

AtStatsWrite(r) == run[r].pc \in {"writeStats", "writingStats"}

C34_TokensBeforeStatsAndFailureStops ==
    /\ [][\A r \in Runs : run'[r] # run[r] =>
            /\ (AtStatsWrite(r)' /\ ~AtStatsWrite(r)) =>
                  /\ run[r].pc = "savingTokens"
                  /\ tokensFile' = run[r].tokens
                  /\ ~tokensTorn'
            /\ AtTokensWrite(r) =>
                  \/ AtTokensWrite(r)' /\ run'[r].pc = "savingTokens"
                  \/ run'[r].pc = "writeStats"
                  \/ /\ run'[r] = IdleRun
                     /\ lastLog' = "Error in data collection:"
                     /\ UNCHANGED <<statsFile, statsTorn>>]_vars
    /\ [][(statsFile' # statsFile \/ statsTorn' # statsTorn) =>
            \E r \in Runs : AtStatsWrite(r) /\ run'[r] # run[r]]_vars

\* A run's saveTokens has failed under the write (the file is left partly
\* written and no process is writing it), the run has ended with the error
\* logged, and stats.json is the file the server started with.
C34_Witness ==
    /\ lastLog = "Error in data collection:"
    /\ \A r \in Runs : run[r].pc = "idle"
    /\ tokensTorn /\ ~statsTorn
    /\ statsFile = BaselineStats

\* ---------------------------------------------------------------------------
\* C35.  A callback with an error parameter, or whose code exchange fails, is
\* answered without a read or a write of athlete_tokens.json and without a
\* handler left at work.  A callback whose exchange succeeds reads the store,
\* puts the record made of the provider's answer under the athlete's id,
\* leaving every other record it has read as it was, and writes exactly that.
C35_CallbackErrorsLeaveStoreSuccessSetsOneKey ==
    /\ [][(reply' # reply /\ reply'.route = "callback") =>
             /\ UNCHANGED <<tokensFile, tokensTorn, cb, missing>>
             /\ reply'.body = "Authorization Failed" => UNCHANGED <<latest, expiries>>]_vars
    /\ [][cb' # cb =>
             /\ cb.pc = "idle" =>
                  /\ cb'.pc = "readTokens"
                  /\ cb'.record.ok
                  /\ UNCHANGED <<tokensFile, tokensTorn>>
             /\ cb.pc = "readTokens" =>
                  /\ UNCHANGED <<tokensFile, tokensTorn>>
                  /\ \/ cb' = IdleHandler
                     \/ /\ cb'.pc = "saveTokens"
                        /\ DOMAIN cb'.tokens = DOMAIN tokensFile \cup {cb.athleteId}
                        /\ \A k \in DOMAIN tokensFile \ {cb.athleteId} :
                               cb'.tokens[k] = tokensFile[k]
                        /\ cb'.tokens[cb.athleteId].athleteId = cb.athleteId
                        /\ cb'.tokens[cb.athleteId].accessToken = cb.record.access_token
                        /\ cb'.tokens[cb.athleteId].refreshToken = cb.record.refresh_token
                        /\ cb'.tokens[cb.athleteId].expiresAt = cb.record.expires_at
             /\ cb.pc = "saveTokens" =>
                  /\ cb' = [cb EXCEPT !.pc = "savingTokens"]
                  /\ tokensFile' = tokensFile
             /\ cb.pc = "savingTokens" =>
                  /\ tokensFile' = cb.tokens
                  /\ ~tokensTorn'
                  /\ cb' = IdleHandler]_vars

\* After a callback that was answered with an error, the store holds two
\* records, one of them written by a callback since the server started.
C35_Witness ==
    /\ reply.route = "callback"
    /\ cb.pc = "idle"
    /\ ~tokensTorn
    /\ Cardinality(DOMAIN tokensFile) = 2
    /\ \E u \in DOMAIN tokensFile : tokensFile[u].accessToken = 2

\* ---------------------------------------------------------------------------
\* C36.  isAdmin becomes true in a session only in the step that answers a
\* login of that session carrying ADMIN_PASSWORD; after a logout the session
\* has no isAdmin until such a login; the removal handler starts, and the
\* removal and listing routes answer anything but 401, only for a session with
\* isAdmin; a 401 of the removal route comes from a session without isAdmin
\* and leaves athlete_tokens.json and the handler as they were; and the file
\* changes only by the write of a removal that was so admitted.
C36_AdminRoutesNeedSession ==
    /\ [](reply.route = "logout" => ~session[reply.session].isAdmin)
    /\ [][\A s \in Sessions : (session'[s].isAdmin /\ ~session[s].isAdmin) =>
             reply' = [route |-> "login", status |-> 200, session |-> s,
                       password |-> ADMIN_PASSWORD]]_vars
    /\ [][(adm' # adm /\ adm.pc = "idle") =>
             /\ session[adm'.session].isAdmin
             /\ UNCHANGED <<tokensFile, tokensTorn>>]_vars
    /\ [][(reply' # reply /\ reply'.route \in {"remove", "list"} /\ "session" \in DOMAIN reply') =>
             /\ reply'.status = 401 <=> ~session[reply'.session].isAdmin
             /\ UNCHANGED <<tokensFile, tokensTorn, adm, session>>]_vars
    /\ [][(tokensFile' # tokensFile \/ tokensTorn' # tokensTorn) =>
             /\ adm.pc \in {"saveTokens", "savingTokens"}
             /\ adm.tokens = DeleteKey(adm.tokens, adm.athleteId)]_vars

\* After a removal made while logged in, and a logout, a DELETE for an athlete
\* who is in the store has been answered 401, and the athlete is in the store.
C36_Witness ==
    /\ reply.route = "remove"
    /\ reply.status = 401
    /\ reply.athleteId \in DOMAIN tokensFile
    /\ ~tokensTorn
    /\ \A s \in Sessions : ~session[s].isAdmin
    /\ \E u \in Users : latest[u] = 1 /\ u \notin DOMAIN tokensFile

====
